---------------------------- MODULE Spec2Model ----------------------------
(***************************************************************************)
(* Model of the cDNA reaction calculator of modern-app/src/App.tsx:        *)
(* parse -> calcLocally (per-sample rows, dilution advisor, master mix)    *)
(* -> handleCalculate (local result first, backend result when it answers).*)
(*                                                                         *)
(* Numbers.  The program computes in IEEE-754 binary64.  A finite double   *)
(* is modelled exactly, as sign * m * 2^e with m a 53-bit natural kept as  *)
(* a little-endian sequence of 15-bit limbs (TLC integers are 32 bits      *)
(* wide); every arithmetic operator rounds to nearest, ties to even, as    *)
(* the hardware does.  The value ranges of the calculator stay far from    *)
(* overflow and from the subnormal range, so neither is modelled.  The     *)
(* sign of zero is not modelled either (no output of the program depends   *)
(* on it: toFixed prints -0 as 0 and Math.max(0, -0) is 0).                *)
(* Decimal numerals (the text of a concentration, the result of toFixed)   *)
(* are records [n, d] standing for n / d.                                  *)
(***************************************************************************)
EXTENDS Integers, Sequences, FiniteSets, TLC

----------------------------------------------------------------------------
(* Naturals of arbitrary size: little-endian limbs, no high zero limb.      *)

BASE == 32768
LIMB_BITS == 15
MANT_BITS == 53

\* limb i of a, 0 beyond its ends
Limb(a, i) == IF i >= 1 /\ i <= Len(a) THEN a[i] ELSE 0

\* a without its high zero limbs
BTrim(a) ==
  IF \A i \in 1..Len(a) : a[i] = 0 THEN <<>>
  ELSE SubSeq(a, 1, CHOOSE i \in 1..Len(a) :
                      a[i] # 0 /\ \A j \in (i + 1)..Len(a) : a[j] = 0)

\* the limbs of n, 0 <= n < 2^31
BFromNat(n) == BTrim(<<n % BASE, (n \div BASE) % BASE, n \div (BASE * BASE)>>)

\* the number a of three limbs at most holds, below 2^31
BToNat(a) == Limb(a, 1) + BASE * Limb(a, 2) + BASE * BASE * Limb(a, 3)

\* the carry into limb i of a + b: a lower limb overflows and every limb
\* between passes the carry on
CarryIn(a, b, i) ==
  \E j \in 1..(i - 1) :
     /\ Limb(a, j) + Limb(b, j) >= BASE
     /\ \A m \in (j + 1)..(i - 1) : Limb(a, m) + Limb(b, m) = BASE - 1

BAddN(a, b, n) ==
  BTrim([i \in 1..(n + 1) |->
           (Limb(a, i) + Limb(b, i) + (IF CarryIn(a, b, i) THEN 1 ELSE 0)) % BASE])

BAdd(a, b) == BAddN(a, b, IF Len(a) > Len(b) THEN Len(a) ELSE Len(b))

\* the borrow from limb i of a - b
BorrowIn(a, b, i) ==
  \E j \in 1..(i - 1) :
     /\ Limb(a, j) < Limb(b, j)
     /\ \A m \in (j + 1)..(i - 1) : Limb(a, m) = Limb(b, m)

\* a - b for a >= b
BSub(a, b) ==
  BTrim([i \in 1..Len(a) |->
           (Limb(a, i) - Limb(b, i) - (IF BorrowIn(a, b, i) THEN 1 ELSE 0) + BASE)
             % BASE])

\* -1, 0, 1 as a < b, a = b, a > b, for a and b without high zero limbs
BCmpAt(a, b, i) == IF a[i] > b[i] THEN 1 ELSE -1

BCmp(a, b) ==
  IF Len(a) # Len(b) THEN (IF Len(a) > Len(b) THEN 1 ELSE -1)
  ELSE IF \A i \in 1..Len(a) : a[i] = b[i] THEN 0
  ELSE BCmpAt(a, b, CHOOSE i \in 1..Len(a) :
                      a[i] # b[i] /\ \A j \in (i + 1)..Len(a) : a[j] = b[j])

\* a * k for 0 <= k < BASE: the low halves of the limb products plus their
\* high halves one limb up
BMulSmall(a, k) ==
  IF k = 0 \/ a = <<>> THEN <<>>
  ELSE BAddN([i \in 1..Len(a) |-> (a[i] * k) % BASE],
             [i \in 1..(Len(a) + 1) |-> (Limb(a, i - 1) * k) \div BASE],
             Len(a) + 1)

BShiftLimb(a) == IF a = <<>> THEN <<>> ELSE <<0>> \o a

\* a * k + rest * BASE
BMulAcc(a, k, rest) ==
  IF rest = <<>> THEN BMulSmall(a, k)
  ELSE BAdd(BMulSmall(a, k), BShiftLimb(rest))

RECURSIVE BMul(_, _)
BMul(a, b) ==
  IF b = <<>> \/ a = <<>> THEN <<>>
  ELSE BMulAcc(a, b[1], BMul(a, Tail(b)))

\* a * 2^(w * LIMB_BITS + s), 0 <= s < LIMB_BITS
BShlBy(a, w, s) ==
  BTrim([i \in 1..(Len(a) + w + 1) |->
           IF i <= w THEN 0
           ELSE (Limb(a, i - w) % (2 ^ (LIMB_BITS - s))) * (2 ^ s)
                + Limb(a, i - w - 1) \div (2 ^ (LIMB_BITS - s))])

\* a * 2^k
BShl(a, k) == IF a = <<>> THEN <<>> ELSE BShlBy(a, k \div LIMB_BITS, k % LIMB_BITS)

\* floor(a / 2^(w * LIMB_BITS + s)), 0 <= s < LIMB_BITS
BShrBy(a, w, s) ==
  BTrim([i \in 1..(Len(a) - w) |->
           Limb(a, i + w) \div (2 ^ s)
           + (Limb(a, i + w + 1) % (2 ^ s)) * (2 ^ (LIMB_BITS - s))])

\* floor(a / 2^k)
BShr(a, k) ==
  IF k \div LIMB_BITS >= Len(a) THEN <<>>
  ELSE BShrBy(a, k \div LIMB_BITS, k % LIMB_BITS)

\* the number of bits of the limb n
NatBits(n) ==
  CHOOSE k \in 0..LIMB_BITS : n < 2 ^ k /\ (k = 0 \/ n >= 2 ^ (k - 1))

BBitLen(a) == IF a = <<>> THEN 0 ELSE (Len(a) - 1) * LIMB_BITS + NatBits(a[Len(a)])

BIsOdd(a) == a # <<>> /\ a[1] % 2 = 1

\* The quotient limb of r by b, for r < b * BASE and the top limb of b at
\* least BASE / 2: the top two limbs of r over the top limb of b exceed it
\* by two at most.
QGuess(r, b) ==
  LET g == (Limb(r, Len(b) + 1) * BASE + Limb(r, Len(b))) \div b[Len(b)]
  IN  IF g > BASE - 1 THEN BASE - 1 ELSE g

QFit(r, b, g) ==
  IF BCmp(BMulSmall(b, g), r) <= 0 THEN g
  ELSE IF BCmp(BMulSmall(b, g - 1), r) <= 0 THEN g - 1
  ELSE g - 2

QDigit(r, b) == QFit(r, b, QGuess(r, b))

BDivModDigit(q, r2, b, d) == [q |-> <<d>> \o q, r |-> BSub(r2, BMulSmall(b, d))]

\* the quotient limb of the remainder r2
BDivModRem(q, r2, b) == BDivModDigit(q, r2, b, QDigit(r2, b))

\* one step of long division: limb ai is brought down to the remainder p.r
BDivModStep(p, ai, b) ==
  IF p.r = <<>> /\ ai = 0 THEN [q |-> <<0>> \o p.q, r |-> <<>>]
  ELSE BDivModRem(p.q, BTrim(<<ai>> \o p.r), b)

\* long division of the limbs i..Len(a) of a by b, one quotient limb per
\* step; the top Len(b) - 1 limbs of a are the first remainder
RECURSIVE BDivModI(_, _, _)
BDivModI(a, b, i) ==
  IF i > Len(a) - (Len(b) - 1)
  THEN [q |-> <<>>, r |-> BTrim(SubSeq(a, i, Len(a)))]
  ELSE BDivModStep(BDivModI(a, b, i + 1), a[i], b)

\* the quotient without its high zero limbs and the remainder of a division
\* whose operands were both multiplied by 2^sh
BUnshift(x, sh) == [q |-> BTrim(x.q), r |-> BShr(x.r, sh)]

\* quotient and remainder of a by b (b # 0), both shifted until the top limb
\* of b is BASE / 2 or more
BDivMod(a, b) ==
  BUnshift(BDivModI(BShl(a, LIMB_BITS - NatBits(b[Len(b)])),
                    BShl(b, LIMB_BITS - NatBits(b[Len(b)])), 1),
           LIMB_BITS - NatBits(b[Len(b)]))

----------------------------------------------------------------------------
(* IEEE-754 binary64 values and the operators the calculator applies.       *)

\* the zero of sign s: 0 and -0 are distinct values that compare equal
FZeroOf(s) == [k |-> "fin", s |-> s, m |-> <<>>, e |-> 0]
FZero == FZeroOf(1)
FNaN == [k |-> "nan", s |-> 1, m |-> <<>>, e |-> 0]
FInf(s) == [k |-> "inf", s |-> s, m |-> <<>>, e |-> 0]

FIsZero(a) == a.k = "fin" /\ a.m = <<>>
FIsNaN(a) == a.k = "nan"
FIsFinite(a) == a.k = "fin"

\* -1, 0, 1 as N - q * 2^k is less than, equal to, more than 2^(k-1): where
\* the part of N that q == floor(N / 2^k) drops stands against one half
HalfCmp(N, k, q) == BCmp(BSub(N, BShl(q, k)), BShl(<<1>>, k - 1))

\* the exponents of binary64: of the leading bit of the largest number and
\* of the last bit of the smallest
EXP_MAX == 1023
EXP_MIN == -1074

\* q * 2^e for q of at most 54 bits and e >= EXP_MIN, with q brought to 53
\* bits: Infinity beyond the largest number
FRoundCarry(s, q, e) ==
  IF q = <<>> THEN FZeroOf(s)
  ELSE IF e + BBitLen(q) - 1 > EXP_MAX THEN FInf(s)
  ELSE IF BBitLen(q) > MANT_BITS
  THEN [k |-> "fin", s |-> s, m |-> BShr(q, 1), e |-> e + 1]
  ELSE [k |-> "fin", s |-> s, m |-> BShl(q, MANT_BITS - BBitLen(q)),
        e |-> e - (MANT_BITS - BBitLen(q))]

\* q rounded up or left, c being where the dropped part stands against half
FRoundUp(s, q, e, c, sticky) ==
  FRoundCarry(s, IF c > 0 \/ (c = 0 /\ (sticky \/ BIsOdd(q)))
                 THEN BAdd(q, <<1>>) ELSE q, e)

\* the number of low bits of M * 2^e the format cannot hold: those beyond
\* 53 significant bits and those below 2^EXP_MIN
FDropped(M, e) ==
  IF BBitLen(M) - MANT_BITS > EXP_MIN - e THEN BBitLen(M) - MANT_BITS
  ELSE EXP_MIN - e

\* M * 2^e, plus a positive fraction of one unit of M when sticky holds,
\* rounded to the format: nearest, ties to even, with gradual underflow
FRound(s, M, e, sticky) ==
  IF M = <<>> THEN FZeroOf(s)
  ELSE IF FDropped(M, e) <= 0 THEN FRoundCarry(s, M, e)
  ELSE FRoundUp(s, BShr(M, FDropped(M, e)), e + FDropped(M, e),
                HalfCmp(M, FDropped(M, e), BShr(M, FDropped(M, e))),
                sticky)

\* the quotient x.q with exponent e, sticky when the division left a remainder
FRoundQuotient(s, x, e) == FRound(s, x.q, e, x.r # <<>>)

\* (N * 2^k / D) * 2^(e-k) with the quotient truncated
FRatioShifted(s, N, D, e, k) == FRoundQuotient(s, BDivMod(BShl(N, k), D), e - k)

\* (N / D) * 2^e correctly rounded, D # 0: the quotient is taken with at
\* least 55 bits
FRatio(s, N, D, e) ==
  IF N = <<>> THEN FZeroOf(s)
  ELSE IF MANT_BITS + 2 + BBitLen(D) - BBitLen(N) > 0
  THEN FRatioShifted(s, N, D, e, MANT_BITS + 2 + BBitLen(D) - BBitLen(N))
  ELSE FRatioShifted(s, N, D, e, 0)

\* Decimal numerals.  [n, d] with d > 0 is n / d; d = 0 stands for the
\* numerals Infinity (n = 1), -Infinity (n = -1) and NaN (n = 0); d < 0 with
\* n = 0 is a zero printed with a - sign, as -0.000 is for d = -1000.
Abs(n) == IF n < 0 THEN -n ELSE n
Sign(n) == IF n < 0 THEN -1 ELSE 1

Dec(n, d) == [n |-> n, d |-> d]
DecNaN == Dec(0, 0)
DecInf(s) == Dec(s, 0)

\* the double a decimal numeral n/d denotes (parseFloat, a numeric literal)
FOfDec(x) ==
  IF x.d = 0 THEN (IF x.n = 0 THEN FNaN ELSE FInf(x.n))
  ELSE FRatio(Sign(x.n), BFromNat(Abs(x.n)), BFromNat(x.d), 0)

FOfInt(n) == FRound(Sign(n), BFromNat(Abs(n)), 0, FALSE)

FNeg(a) == IF a.k = "nan" THEN a ELSE [a EXCEPT !.s = -a.s]

\* a / b
FDiv(a, b) ==
  IF a.k = "nan" \/ b.k = "nan" THEN FNaN
  ELSE IF a.k = "inf" THEN (IF b.k = "inf" THEN FNaN ELSE FInf(a.s * b.s))
  ELSE IF b.k = "inf" THEN FZeroOf(a.s * b.s)
  ELSE IF FIsZero(b) THEN (IF FIsZero(a) THEN FNaN ELSE FInf(a.s * b.s))
  ELSE FRatio(a.s * b.s, a.m, b.m, a.e - b.e)

\* a * b
FMul(a, b) ==
  IF a.k = "nan" \/ b.k = "nan" THEN FNaN
  ELSE IF a.k = "inf" \/ b.k = "inf"
       THEN (IF FIsZero(a) \/ FIsZero(b) THEN FNaN ELSE FInf(a.s * b.s))
  ELSE FRound(a.s * b.s, BMul(a.m, b.m), a.e + b.e, FALSE)

\* -1, 0, 1 as |a| < |b|, |a| = |b|, |a| > |b|, for finite a and b
FCmpMag(a, b) ==
  IF a.m = <<>> \/ b.m = <<>>
  THEN (IF a.m = b.m THEN 0 ELSE IF a.m = <<>> THEN -1 ELSE 1)
  ELSE IF a.e # b.e THEN (IF a.e > b.e THEN 1 ELSE -1)
  ELSE BCmp(a.m, b.m)

\* -1, 0, 1 as a < b, a = b, a > b, for a and b that are not NaN
FCmp(a, b) ==
  IF a.k = "inf" \/ b.k = "inf"
  THEN LET va == IF a.k = "inf" THEN a.s ELSE 0
           vb == IF b.k = "inf" THEN b.s ELSE 0
       IN  IF va < vb THEN -1 ELSE IF va > vb THEN 1 ELSE 0
  ELSE LET sa == IF FIsZero(a) THEN 0 ELSE a.s
           sb == IF FIsZero(b) THEN 0 ELSE b.s
       IN  IF sa # sb THEN (IF sa < sb THEN -1 ELSE 1)
           ELSE IF sa = 0 THEN 0
           ELSE sa * FCmpMag(a, b)

\* the comparison operators of the language: false when an operand is NaN
FLe(a, b) == a.k # "nan" /\ b.k # "nan" /\ FCmp(a, b) <= 0
FLt(a, b) == a.k # "nan" /\ b.k # "nan" /\ FCmp(a, b) < 0
FGe(a, b) == FLe(b, a)
FGt(a, b) == FLt(b, a)

\* sa * A * 2^e + sb * B * 2^e
FAddAligned(sa, A, sb, B, e) ==
  IF sa = sb THEN FRound(sa, BAdd(A, B), e, FALSE)
  ELSE IF BCmp(A, B) = 0 THEN FZero
  ELSE IF BCmp(A, B) > 0 THEN FRound(sa, BSub(A, B), e, FALSE)
  ELSE FRound(sb, BSub(B, A), e, FALSE)

\* a + b for finite non-zero a and b, e the smaller exponent
FAddAt(a, b, e) == FAddAligned(a.s, BShl(a.m, a.e - e), b.s, BShl(b.m, b.e - e), e)

\* a + b
FAdd(a, b) ==
  IF a.k = "nan" \/ b.k = "nan" THEN FNaN
  ELSE IF a.k = "inf"
       THEN (IF b.k = "inf" /\ b.s # a.s THEN FNaN ELSE a)
  ELSE IF b.k = "inf" THEN b
  ELSE IF FIsZero(a) /\ FIsZero(b)
       THEN (IF a.s = -1 /\ b.s = -1 THEN a ELSE FZero)
  ELSE IF FIsZero(a) THEN b
  ELSE IF FIsZero(b) THEN a
  ELSE FAddAt(a, b, IF a.e < b.e THEN a.e ELSE b.e)

\* a - b
FSub(a, b) == FAdd(a, FNeg(b))

\* Math.max(a, b): 0 is the larger of 0 and -0
FMax(a, b) ==
  IF a.k = "nan" \/ b.k = "nan" THEN FNaN
  ELSE IF FCmp(a, b) > 0 THEN a
  ELSE IF FCmp(a, b) < 0 THEN b
  ELSE IF FIsZero(a) /\ a.s = -1 THEN b ELSE a

\* whether q * 2^k falls short of m
FCut(m, k, q) == [q |-> q, frac |-> BShl(q, k) # m]

\* integer part and whether a fraction was cut, of the magnitude of finite a
FTrunc(a) ==
  IF a.e >= 0 THEN [q |-> BShl(a.m, a.e), frac |-> FALSE]
  ELSE FCut(a.m, -a.e, BShr(a.m, -a.e))

\* the integer next to the truncation t of a value of sign s, away from
\* zero when s = dir and a fraction was cut
FToward(s, t, dir) ==
  IF s = dir /\ t.frac THEN FRound(s, BAdd(t.q, <<1>>), 0, FALSE)
  ELSE FRound(s, t.q, 0, FALSE)

\* Math.ceil(a)
FCeil(a) == IF a.k # "fin" THEN a ELSE FToward(a.s, FTrunc(a), 1)

\* Math.floor(a)
FFloor(a) == IF a.k # "fin" THEN a ELSE FToward(a.s, FTrunc(a), -1)

\* the integer an integer-valued finite double of small magnitude holds
FToInt(a) == a.s * BToNat(FTrunc(a).q)

\* q, or q + 1 when the dropped part of N is one half or more
RoundHalfUp(N, k, q) == IF HalfCmp(N, k, q) >= 0 THEN BAdd(q, <<1>>) ELSE q

\* N * 2^e rounded to the nearest integer, the larger one on a tie
toFixedDigits(N, e) ==
  IF e >= 0 THEN BShl(N, e) ELSE RoundHalfUp(N, -e, BShr(N, -e))

\* the numeral of sign a.s with the digits N: a - sign is printed for every
\* a < 0, also before digits that are all zero
toFixedOf(a, N, f) ==
  IF N = 0 /\ a.s = -1 /\ ~FIsZero(a) THEN Dec(0, -(10 ^ f))
  ELSE Dec(a.s * N, 10 ^ f)

\* a.toFixed(f): the magnitude times 10^f is rounded to the nearest integer,
\* the larger one on a tie
toFixed(a, f) ==
  IF a.k = "nan" THEN DecNaN
  ELSE IF a.k = "inf" THEN DecInf(a.s)
  ELSE toFixedOf(a, BToNat(toFixedDigits(BMul(a.m, BFromNat(10 ^ f)), a.e)), f)

\* Number(x) for a numeral x: -0.00 denotes the number zero
NumberOf(x) == IF x.d < 0 THEN Dec(0, -x.d) ELSE x

\* q or q + 1 as c, where the dropped part stands against one half, tells
\* for sign s: a tie goes up
MathRoundUp(s, q, c) ==
  FRound(s, IF (IF s = 1 THEN c >= 0 ELSE c > 0) THEN BAdd(q, <<1>>) ELSE q,
         0, FALSE)

\* Math.round(a): the nearest integer, the larger one on a tie
MathRound(a) ==
  IF a.k # "fin" \/ a.e >= 0 THEN a
  ELSE MathRoundUp(a.s, BShr(a.m, -a.e), HalfCmp(a.m, -a.e, BShr(a.m, -a.e)))

\* the numeral `${a}` prints for an integer-valued double
DecOfInt(a) ==
  IF a.k = "nan" THEN DecNaN
  ELSE IF a.k = "inf" THEN DecInf(a.s)
  ELSE Dec(FToInt(a), 1)

----------------------------------------------------------------------------
(* Text.  A string built by a template literal is the sequence of its       *)
(* parts: Txt(s) for literal text, Num(x) for an interpolated numeral.      *)
(* The empty string is the empty sequence.  A table cell is a numeral or    *)
(* EMPTY (the '' the program stores for "no value").  NULL is null.         *)

Txt(s) == [txt |-> s]
Num(x) == [num |-> x]
EMPTY == [txt |-> ""]
NULL == [null |-> TRUE]

----------------------------------------------------------------------------
(* The calculator: App.tsx lines 36-135.                                    *)

FIXED == [buffer |-> Dec(20, 10), dntps |-> Dec(8, 10),
          rand |-> Dec(20, 10), enzyme |-> Dec(10, 10)]
FINAL_VOL == Dec(200, 10)
AVAIL_RNA_H2O ==
  FSub(FOfDec(FINAL_VOL),
       FAdd(FAdd(FAdd(FOfDec(FIXED.buffer), FOfDec(FIXED.dntps)),
                 FOfDec(FIXED.rand)), FOfDec(FIXED.enzyme)))
MIN_PIP == FOfDec(Dec(5, 10))
candidates == <<2, 3, 4, 5, 10, 20, 50>>

\* the thousandths of x with the fraction dropped
ThousandthsDown(x) == FFloor(FMul(x, FOfInt(1000)))

\* Math.round(x * 1000), the thousandths the recipe prints for x
Thousandths(x) == MathRound(FMul(x, FOfInt(1000)))

\* the template of dilutionRecipeText, rnaK and h2oK the thousandths of rna
\* and h2o
recipeText(D, prep, rnaK, h2oK) ==
  << Txt("Pre-dilute "), Num(DecOfInt(D)), Txt("x (1:"),
     Num(DecOfInt(FSub(D, FOfInt(1)))), Txt("). Make "),
     Num(DecOfInt(prep)), Txt(" ul: "),
     Num(Dec(FToInt(rnaK), 1000)), Txt(" ul RNA + "),
     Num(Dec(FToInt(h2oK), 1000)), Txt(" ul H2O.") >>

\* const h2o = Math.round((prep - rna) * 1000) / 1000, rna being rnaK / 1000
recipeOf(D, prep, rnaK) ==
  recipeText(D, prep, rnaK, Thousandths(FSub(prep, FDiv(rnaK, FOfInt(1000)))))

dilutionRecipeText(D) ==
  IF FLe(D, FOfInt(1)) THEN <<Txt("No pre-dilution needed.")>>
  ELSE recipeOf(D, FOfInt(10), Thousandths(FDiv(FOfInt(10), D)))

\* aliq >= MIN_PIP && aliq <= AVAIL_RNA_H2O
pipettable(aliq) == FGe(aliq, MIN_PIP) /\ FLe(aliq, AVAIL_RNA_H2O)

\* a scan that looks at the largest candidate only
scanLargest(req, i) ==
  IF pipettable(FMul(FOfInt(candidates[Len(candidates)]), req))
  THEN candidates[Len(candidates)] ELSE 0

\* for (const D of candidates): the first candidate whose aliquot D * req is
\* pipettable, 0 when none is
RECURSIVE scanCandidates(_, _)
scanCandidates(req, i) ==
  IF i > Len(candidates) THEN 0
  ELSE IF pipettable(FMul(FOfInt(candidates[i]), req)) THEN candidates[i]
  ELSE scanCandidates(req, i + 1)

\* a suggestion whose aliquot is the volume of the undiluted stock
suggestionOfStock(D, req) ==
  [D |-> D, aliq |-> req, recipe |-> dilutionRecipeText(D)]

\* { D, aliq, recipe: dilutionRecipeText(D) }
suggestion(D, req) ==
  [D |-> D, aliq |-> FMul(D, req), recipe |-> dilutionRecipeText(D)]

\* the factor with the quotient rounded down
fallbackFactorFloor(req) == FMax(FOfInt(1), FFloor(FDiv(MIN_PIP, req)))

\* const D = Math.max(1, dMin), dMin being Math.ceil(MIN_PIP / req)
fallbackFactor(req) == FMax(FOfInt(1), FCeil(FDiv(MIN_PIP, req)))

\* an end of suggestDilution that returns whatever aliquot there is
fallbackUnchecked(D, req) == suggestion(D, req)

\* the end of suggestDilution, reached when no candidate fits
fallback(D, req) ==
  IF FGt(FMul(D, req), AVAIL_RNA_H2O) THEN NULL ELSE suggestion(D, req)

\* the loop and what follows it, first being the result of the loop
chooseFactor(req, first) ==
  IF first # 0 THEN suggestion(FOfInt(first), req)
  ELSE fallback(fallbackFactor(req), req)

suggestDilution(req) ==
  IF FLt(FFloor(FDiv(AVAIL_RNA_H2O, req)), FOfInt(1)) THEN NULL
  ELSE chooseFactor(req, scanCandidates(req, 1))

\* the quotient without the test of the concentration
requiredUnguarded(conc, target) == FDiv(target, conc)

\* const req = s.conc > 0 ? target / s.conc : NaN
required(conc, target) == IF FGt(conc, FZero) THEN FDiv(target, conc) ELSE FNaN

\* the achievable mass of a stock nothing is taken from
achievableNone(conc) == FZero

\* let achievable = Math.max(0, s.conc * AVAIL_RNA_H2O)
achievableMax(conc) == FMax(FZero, FMul(conc, AVAIL_RNA_H2O))

\* advised with MIN_PIP itself below the range
advisedAtMinPip(req) == FLe(req, AVAIL_RNA_H2O) /\ ~FGt(req, MIN_PIP)

\* whether the loop body calls suggestDilution: feasible and not req >= MIN_PIP
advised(req) == FLe(req, AVAIL_RNA_H2O) /\ ~FGe(req, MIN_PIP)

\* direct with water up to the final volume
directToFinal(target, req) ==
  [rnaVol |-> req, h2o |-> FSub(FOfDec(FINAL_VOL), req), achievable |-> target,
   note |-> <<>>]

\* direct without the subtraction: all of the volume left is water
directAllWater(target, req) ==
  [rnaVol |-> req, h2o |-> AVAIL_RNA_H2O, achievable |-> target, note |-> <<>>]

\* req >= MIN_PIP: the stock is pipetted as it is
direct(target, req) ==
  [rnaVol |-> req, h2o |-> FSub(AVAIL_RNA_H2O, req), achievable |-> target,
   note |-> <<>>]

\* the else branch: what the suggestion sug, or its absence, gives
diluted(conc, target, req, sug) ==
  IF sug # NULL
  THEN [rnaVol |-> sug.aliq, h2o |-> FSub(AVAIL_RNA_H2O, sug.aliq),
        achievable |-> target,
        note |-> << Txt("Stock volume "), Num(toFixed(req, 3)),
                    Txt(" ul < "), Num(Dec(5, 10)), Txt(" ul. ") >>
                 \o sug.recipe
                 \o << Txt(" Then add "), Num(toFixed(sug.aliq, 3)),
                       Txt(" ul of the diluted RNA.") >>]
  ELSE [rnaVol |-> NULL, h2o |-> NULL, achievable |-> achievableMax(conc),
        note |-> << Txt("Stock volume "), Num(toFixed(req, 3)),
                    Txt(" ul too small; no pre-dilution fits in "),
                    Num(toFixed(AVAIL_RNA_H2O, 1)), Txt(" ul.") >>]

\* a branch for the infeasible sample that leaves the note empty
tooLowSilent(achievable) ==
  [rnaVol |-> NULL, h2o |-> NULL, achievable |-> achievable, note |-> <<>>]

\* not feasible
tooLow(achievable) ==
  [rnaVol |-> NULL, h2o |-> NULL, achievable |-> achievable,
   note |-> << Txt("Conc too low: max "), Num(toFixed(achievable, 1)),
               Txt(" ng in "), Num(toFixed(AVAIL_RNA_H2O, 1)), Txt(" ul.") >>]

\* the branches of the loop body for the volume req
volumesFor(conc, target, req) ==
  IF advised(req) THEN diluted(conc, target, req, suggestDilution(req))
  ELSE IF FLe(req, AVAIL_RNA_H2O) THEN direct(target, req)
  ELSE tooLow(achievableMax(conc))

\* the body of the loop of calcLocally up to rows.push: the volumes, the
\* achievable mass and the note for the doubles conc and target
sampleVolumes(conc, target) == volumesFor(conc, target, required(conc, target))

\* cells with the RNA volume rounded to 2 decimals
cellsOfCoarse(conc, v) ==
  [RNAConc       |-> IF FIsFinite(FOfDec(conc)) THEN conc ELSE EMPTY,
   RNAVolume     |-> IF v.rnaVol = NULL THEN EMPTY
                     ELSE NumberOf(toFixed(v.rnaVol, 2)),
   H2O           |-> IF v.h2o = NULL THEN EMPTY ELSE NumberOf(toFixed(v.h2o, 3)),
   AchievableRNA |-> NumberOf(toFixed(v.achievable, 1)),
   Note          |-> v.note]

\* the cells rows.push derives from the volumes v: Number(x.toFixed(f))
cellsOf(conc, v) ==
  [RNAConc       |-> IF FIsFinite(FOfDec(conc)) THEN conc ELSE EMPTY,
   RNAVolume     |-> IF v.rnaVol = NULL THEN EMPTY
                     ELSE NumberOf(toFixed(v.rnaVol, 3)),
   H2O           |-> IF v.h2o = NULL THEN EMPTY ELSE NumberOf(toFixed(v.h2o, 3)),
   AchievableRNA |-> NumberOf(toFixed(v.achievable, 1)),
   Note          |-> v.note]

\* the cells of the row of a sample, conc and target being numerals
sampleCells(conc, target) ==
  cellsOf(conc, sampleVolumes(FOfDec(conc), FOfDec(target)))

\* const nTotal = Math.max(1, Math.ceil(samples.length * (1 + overage / 100)))
nTotalOf(n, overage) ==
  FMax(FOfInt(1),
       FCeil(FMul(FOfInt(n), FAdd(FOfInt(1), FDiv(overage, FOfInt(100))))))

\* the volume of one reaction
unscaled(x, nTotal) == x

\* Number((FIXED.x * nTotal).toFixed(3))
scaled(x, nTotal) == NumberOf(toFixed(FMul(FOfDec(x), nTotal), 3))

\* what the master-mix row and the masterMix object hold for n samples, the
\* overage printed as pct and nTotal reactions
mixOf(n, pct, nTotal) ==
  [n_total       |-> FToInt(nTotal),
   label         |-> << Txt("MASTER MIX ("), Num(pct), Txt("% overage) - "),
                        Num(DecOfInt(nTotal)), Txt(" rxns") >>,
   buffer10x     |-> scaled(FIXED.buffer, nTotal),
   dNTPs         |-> scaled(FIXED.dntps, nTotal),
   RandomPrimers |-> scaled(FIXED.rand, nTotal),
   Enzyme        |-> scaled(FIXED.enzyme, nTotal),
   Note          |-> << Txt("Make in one tube; covers "), Num(Dec(n, 1)),
                        Txt(" samples + "), Num(pct), Txt("% overage.") >>]

\* the master-mix cells for n samples and the numeral overage
mixCells(n, overage) ==
  mixOf(n, toFixed(FOfDec(overage), 0), nTotalOf(n, FOfDec(overage)))

----------------------------------------------------------------------------
(* The inputs the model draws.                                              *)

MaxSamples == 2
MaxBatch == 50

\* the pasted samples: one name per concentration; the last one was pasted
\* as Infinity, which parseFloat reads
SamplePool ==
  { [sample |-> "Sample1", conc |-> Dec(1782, 10)],
    [sample |-> "Sample2", conc |-> Dec(2000, 1)],
    [sample |-> "Sample3", conc |-> Dec(5, 1)],
    [sample |-> "Sample4", conc |-> Dec(400, 1)],
    [sample |-> "Sample5", conc |-> Dec(10, 1)],
    [sample |-> "Sample6", conc |-> Dec(0, 1)],
    [sample |-> "Sample7", conc |-> Dec(-1, 1)],
    [sample |-> "Sample8", conc |-> Dec(16, 1)],
    [sample |-> "Sample9", conc |-> Dec(40000, 1)],
    [sample |-> "Sample10", conc |-> Dec(4350, 1)],
    [sample |-> "Sample11", conc |-> Dec(284, 1)],
    [sample |-> "Sample12", conc |-> Dec(71, 1)],
    [sample |-> "Sample13", conc |-> DecInf(1)] }

\* the samples typed during a session with edits: 2.3 ng of the last one
\* need the double next below 0.01 ul
EditPool ==
  { [sample |-> "Sample1", conc |-> Dec(1782, 10)],
    [sample |-> "Sample14", conc |-> Dec(230, 1)] }

ConcValues == {s.conc : s \in SamplePool \cup EditPool}

\* the target masses: 1.5 is 3/2 and 200.25 is 801/4
TargetValues ==
  { Dec(200, 1), Dec(142, 1), Dec(3, 1), Dec(9, 1), Dec(3, 2),
    Dec(0, 1), Dec(-200, 1), Dec(801, 4), Dec(71, 10) }

\* the targets and overages typed during a session with edits
EditTargets == { Dec(200, 1), Dec(23, 10) }
EditOverages == { Dec(10, 1), Dec(0, 1) }

\* every target the tables are computed for
TableTargets == TargetValues \cup EditTargets

OverageValues == { Dec(10, 1), Dec(0, 1), Dec(-100, 1) }

\* the overages of a plate
BatchOverages == OverageValues \cup { Dec(12, 1), Dec(-70, 1) }

MaxLen == IF MaxSamples > MaxBatch THEN MaxSamples ELSE MaxBatch

SampleLists == UNION { [1..n -> SamplePool] : n \in 0..MaxSamples }
EditLists == UNION { [1..n -> EditPool] : n \in 0..MaxSamples }

\* a plate of n identical samples
BatchSample == [sample |-> "Sample1", conc |-> Dec(1782, 10)]
BatchLists == { [i \in 1..n |-> BatchSample] : n \in 0..MaxBatch }

\* sampleCells and mixCells tabulated over the inputs: a table is computed
\* once, where the operator would be computed again in every state
sampleTable == [c \in ConcValues, t \in TableTargets |-> sampleCells(c, t)]
mixTable == [n \in 0..MaxLen, o \in BatchOverages |-> mixCells(n, o)]

----------------------------------------------------------------------------
(* The state of the App component: App.tsx lines 138-148.                   *)

VARIABLES
  sampleText,  \* the text of the textarea, NULL where samples is drawn
               \* without its text
  samples,     \* useMemo(parseSamples(...)): the parsed sample list
  targetNg,    \* the target mass, a numeral
  overagePct,  \* the master-mix overage, a numeral
  rows,        \* the displayed rows
  masterMix,   \* the displayed totals, NULL before the first run
  loading,     \* a run is in progress: the Calculate button is disabled
  error,       \* NULL or the error message
  warning,     \* NULL or the warning message
  backendUsed, \* the source label reads FastAPI
  inflight     \* NULL, or the closure of the run awaiting fetch: its local,
               \* the body it posted and the response once fetch resolved

VARIABLES
  storage,      \* localStorage[STORAGE_KEY]: NULL or the persisted paths
  desktop,      \* getElectronAPI() is not null: the desktop build
  paths,        \* the four path fields of the overlays
  defaultPaths, \* what "Use defaults" restores
  setupOpen,    \* the first-run setup overlay is shown
  settingsOpen, \* the settings overlay is shown
  setupError,   \* NULL or the message of the overlays
  savingSetup,  \* the Finish setup button is disabled
  finishing     \* the calls of handleFinishSetup awaiting ensureDirectories:
                \* their trimmed paths and, once settled, the result

setupVars == <<storage, desktop, paths, defaultPaths, setupOpen, settingsOpen,
               setupError, savingSetup, finishing>>

VARIABLES
  steps,        \* the steps prop of GuidedTutorial
  open,         \* the tutorial was started and not closed
  stepIndex,    \* the index of the current step
  targetRect,   \* NULL or the rectangle of the highlighted element
  targetFound   \* the selector of the current step matched an element

tutorialVars == <<steps, open, stepIndex, targetRect, targetFound>>

overlayVars == <<setupVars, tutorialVars>>

VARIABLES
  advice,       \* NULL, or a call of suggestDilution: its req and its result
  requests      \* the runs of handleCalculate awaiting, one beside another

appVars == <<sampleText, samples, targetNg, overagePct, rows, masterMix,
             loading, error, warning, backendUsed, inflight>>

vars == <<appVars, advice, requests, overlayVars>>

----------------------------------------------------------------------------
(* calcLocally: App.tsx lines 63-135.                                       *)

\* rows.push({...}) for the sample named sample at index idx, c its cells
rowOf(idx, sample, c) ==
  [order         |-> idx,
   Sample        |-> <<Txt(sample)>>,
   RNAConc       |-> c.RNAConc,
   RNAVolume     |-> c.RNAVolume,
   buffer10x     |-> FIXED.buffer,
   dNTPs         |-> FIXED.dntps,
   RandomPrimers |-> FIXED.rand,
   Enzyme        |-> FIXED.enzyme,
   H2O           |-> c.H2O,
   finalVolume   |-> FINAL_VOL,
   AchievableRNA |-> c.AchievableRNA,
   Note          |-> c.Note]

\* a row that takes no index
sampleRowUnordered(s, idx, target) ==
  rowOf(0, s.sample, sampleTable[s.conc, target])

sampleRow(s, idx, target) == rowOf(idx, s.sample, sampleTable[s.conc, target])

\* a master-mix row with the final volume of a reaction
masterRowFilled(m) ==
  [order         |-> 10 ^ 9,
   Sample        |-> m.label,
   RNAConc       |-> EMPTY,
   RNAVolume     |-> EMPTY,
   buffer10x     |-> m.buffer10x,
   dNTPs         |-> m.dNTPs,
   RandomPrimers |-> m.RandomPrimers,
   Enzyme        |-> m.Enzyme,
   H2O           |-> EMPTY,
   finalVolume   |-> FINAL_VOL,
   AchievableRNA |-> EMPTY,
   Note          |-> m.Note]

\* the master-mix row pushed after the loop, m the master-mix cells
masterRowOf(m) ==
  [order         |-> 10 ^ 9,
   Sample        |-> m.label,
   RNAConc       |-> EMPTY,
   RNAVolume     |-> EMPTY,
   buffer10x     |-> m.buffer10x,
   dNTPs         |-> m.dNTPs,
   RandomPrimers |-> m.RandomPrimers,
   Enzyme        |-> m.Enzyme,
   H2O           |-> EMPTY,
   finalVolume   |-> EMPTY,
   AchievableRNA |-> EMPTY,
   Note          |-> m.Note]

masterRow(n, overage) == masterRowOf(mixTable[n, overage])

\* const mm = {...}, m the master-mix cells
masterMixObject(n, m) ==
  [n_samples     |-> n,
   n_total       |-> m.n_total,
   buffer10x     |-> m.buffer10x,
   dNTPs         |-> m.dNTPs,
   RandomPrimers |-> m.RandomPrimers,
   Enzyme        |-> m.Enzyme]

masterMixOf(n, overage) == masterMixObject(n, mixTable[n, overage])

\* the number of samples before the first one without a concentration > 0
firstBad(smpls) ==
  CHOOSE k \in 0..Len(smpls) :
    /\ \A j \in 1..k : smpls[j].conc.n > 0
    /\ k = Len(smpls) \/ smpls[k + 1].conc.n <= 0

\* the rows of the first n samples and the master-mix row
rowsUpTo(n, smpls, target, overage) ==
  [rows      |-> [i \in 1..n |-> sampleRow(smpls[i], i - 1, target)]
                 \o <<masterRow(Len(smpls), overage)>>,
   masterMix |-> masterMixOf(Len(smpls), overage)]

\* a calcLocally whose loop ends at the first sample without a
\* concentration > 0
calcAborting(smpls, target, overage) ==
  rowsUpTo(firstBad(smpls), smpls, target, overage)

\* a calcLocally whose rows array outlives the call: the new rows are pushed
\* after the rows of the run before
calcAccumulating(smpls, target, overage) ==
  [rows      |-> rows
                 \o [i \in 1..Len(smpls) |-> sampleRow(smpls[i], i - 1, target)]
                 \o <<masterRow(Len(smpls), overage)>>,
   masterMix |-> masterMixOf(Len(smpls), overage)]

calcLocally(smpls, target, overage) ==
  [rows      |-> [i \in 1..Len(smpls) |-> sampleRow(smpls[i], i - 1, target)]
                 \o <<masterRow(Len(smpls), overage)>>,
   masterMix |-> masterMixOf(Len(smpls), overage)]

----------------------------------------------------------------------------
(* The App component: its state and handleCalculate, App.tsx lines 137-192. *)

NoInput == Txt("Please paste at least one sample with a concentration.")
BackendUnavailable == Txt("Backend unavailable; showing local calculation.")

Idle ==
  /\ rows = <<>>
  /\ masterMix = NULL
  /\ loading = FALSE
  /\ error = NULL
  /\ warning = NULL
  /\ backendUsed = FALSE
  /\ inflight = NULL

\* A path is the sequence of its parts: " " for a blank, a string without
\* blanks for the rest.

\* const fallbackPaths = (): AppPaths => ({ ... })
fallbackPaths ==
  [dataPath        |-> <<"Easylab/cDNA/data">>,
   attachmentsPath |-> <<"Easylab/cDNA/attachments">>,
   exportsPath     |-> <<"Easylab/cDNA/exports">>,
   syncPath        |-> <<"Easylab/cDNA/sync">>]

\* PATH_FIELDS.map(field => field.key)
PathKeys == DOMAIN fallbackPaths

\* readStoredPaths(): null without an item, else the paths parsed from it,
\* '' for each one the item lacks
readStoredPaths(item) ==
  IF item = NULL THEN NULL
  ELSE [k \in PathKeys |-> IF k \in DOMAIN item THEN item[k] ELSE <<>>]

\* lines 234-240: the state of the overlays for the stored paths
setupInitially(storedPaths) ==
  /\ paths = IF storedPaths # NULL THEN storedPaths ELSE fallbackPaths
  /\ defaultPaths = IF storedPaths # NULL THEN storedPaths ELSE fallbackPaths
  /\ setupOpen = (storedPaths = NULL)
  /\ settingsOpen = FALSE
  /\ setupError = NULL
  /\ savingSetup = FALSE
  /\ finishing = <<>>

\* GuidedTutorial.tsx lines 25-28: the state of the tutorial
tutorialInitially ==
  /\ open = FALSE
  /\ stepIndex = 0
  /\ targetRect = NULL
  /\ targetFound = TRUE

\* the web build after its setup, with a tutorial of one step and the
\* advisor not called on its own
Settled ==
  /\ storage = fallbackPaths
  /\ desktop = FALSE
  /\ setupInitially(readStoredPaths(storage))
  /\ steps = <<[selector |-> 1]>>
  /\ tutorialInitially
  /\ advice = NULL
  /\ requests = <<>>

Init ==
  /\ samples \in SampleLists
  /\ targetNg \in TargetValues
  /\ overagePct \in OverageValues
  /\ sampleText = NULL
  /\ Idle
  /\ Settled

\* a plate of identical samples, up to MaxBatch of them
InitBatch ==
  /\ samples \in BatchLists
  /\ targetNg = Dec(200, 1)
  /\ overagePct \in BatchOverages
  /\ sampleText = NULL
  /\ Idle
  /\ Settled

\* a session in which the inputs are edited
InitEdit ==
  /\ samples \in EditLists
  /\ targetNg \in EditTargets
  /\ overagePct \in EditOverages
  /\ sampleText = NULL
  /\ Idle
  /\ Settled

\* JSON.stringify({ target_ng, overage_pct, samples, ... })
bodyOf(smpls, target, overage) ==
  [target_ng |-> target, overage_pct |-> overage, samples |-> smpls]

\* a click that pushes the local rows after the rows displayed
showLocalAppending(local, body) ==
  /\ loading' = TRUE
  /\ error' = NULL
  /\ warning' = NULL
  /\ rows' = rows \o local.rows
  /\ masterMix' = local.masterMix
  /\ backendUsed' = FALSE
  /\ inflight' = [local |-> local, body |-> body, response |-> NULL]

\* lines 159-166 and the call of fetch: the local result is shown while the
\* request with the body is awaited
showLocal(local, body) ==
  /\ loading' = TRUE
  /\ error' = NULL
  /\ warning' = NULL
  /\ rows' = local.rows
  /\ masterMix' = local.masterMix
  /\ backendUsed' = FALSE
  /\ inflight' = [local |-> local, body |-> body, response |-> NULL]

\* a handleCalculate without the test of samples.length
handleCalculateUnguarded ==
  /\ ~loading
  /\ showLocal(calcLocally(samples, targetNg, overagePct),
               bodyOf(samples, targetNg, overagePct))
  /\ UNCHANGED <<samples, targetNg, overagePct>>
  /\ UNCHANGED <<sampleText, advice, requests, overlayVars>>

\* handleCalculate up to the first await: lines 154-179
handleCalculate ==
  /\ ~loading
  /\ IF Len(samples) = 0
     THEN /\ error' = NoInput
          /\ UNCHANGED <<rows, masterMix, loading, warning, backendUsed,
                         inflight>>
     ELSE showLocal(calcLocally(samples, targetNg, overagePct),
                    bodyOf(samples, targetNg, overagePct))
  /\ UNCHANGED <<samples, targetNg, overagePct>>
  /\ UNCHANGED <<sampleText, advice, requests, overlayVars>>

\* the bodies the backend may answer with: nothing usable, the same result
\* as the local one, or another table
BackendBodies(local) ==
  { [rows |-> NULL, master_mix |-> NULL],
    [rows |-> local.rows, master_mix |-> local.masterMix],
    [rows |-> <<>>, master_mix |-> [n_samples |-> 0]] }

\* await fetch resolves with response.ok: line 180; response.json() is
\* awaited next
fetchOk ==
  /\ inflight # NULL
  /\ inflight.response = NULL
  /\ \E data \in BackendBodies(inflight.local) :
       inflight' = [inflight EXCEPT !.response = data]
  /\ UNCHANGED <<samples, targetNg, overagePct, rows, masterMix, loading,
                 error, warning, backendUsed>>
  /\ UNCHANGED <<sampleText, advice, requests, overlayVars>>

\* response.json() resolves with data: lines 181-183, 189-191
jsonResolves ==
  /\ inflight # NULL
  /\ inflight.response # NULL
  /\ rows' = IF inflight.response.rows # NULL THEN inflight.response.rows
             ELSE inflight.local.rows
  /\ masterMix' = IF inflight.response.master_mix # NULL
                  THEN inflight.response.master_mix
                  ELSE inflight.local.masterMix
  /\ backendUsed' = TRUE
  /\ loading' = FALSE
  /\ inflight' = NULL
  /\ UNCHANGED <<samples, targetNg, overagePct, error, warning>>
  /\ UNCHANGED <<sampleText, advice, requests, overlayVars>>

\* a failure that takes the rows away
fetchNotOkBlank ==
  /\ inflight # NULL
  /\ inflight.response = NULL
  /\ warning' = BackendUnavailable
  /\ loading' = FALSE
  /\ inflight' = NULL
  /\ rows' = <<>>
  /\ UNCHANGED <<samples, targetNg, overagePct, masterMix, error,
                 backendUsed>>
  /\ UNCHANGED <<sampleText, advice, requests, overlayVars>>

\* a response that is not ok and leaves the run loading
fetchNotOkLoading ==
  /\ inflight # NULL
  /\ inflight.response = NULL
  /\ warning' = BackendUnavailable
  /\ inflight' = NULL
  /\ UNCHANGED <<samples, targetNg, overagePct, rows, masterMix, loading,
                 error, backendUsed>>
  /\ UNCHANGED <<sampleText, advice, requests, overlayVars>>

\* the response is not ok: lines 184-186, 189-191
fetchNotOk ==
  /\ inflight # NULL
  /\ inflight.response = NULL
  /\ warning' = BackendUnavailable
  /\ loading' = FALSE
  /\ inflight' = NULL
  /\ UNCHANGED <<samples, targetNg, overagePct, rows, masterMix, error,
                 backendUsed>>
  /\ UNCHANGED <<sampleText, advice, requests, overlayVars>>

\* fetch or response.json() rejects: lines 187-191
fetchThrows ==
  /\ inflight # NULL
  /\ warning' = BackendUnavailable
  /\ loading' = FALSE
  /\ inflight' = NULL
  /\ UNCHANGED <<samples, targetNg, overagePct, rows, masterMix, error,
                 backendUsed>>
  /\ UNCHANGED <<sampleText, advice, requests, overlayVars>>

Next ==
  handleCalculate \/ fetchOk \/ jsonResolves \/ fetchNotOk \/ fetchThrows

\* the textarea changes: setSampleText, and samples is parsed again
setSampleText ==
  /\ \E smpls \in EditLists : smpls # samples /\ samples' = smpls
  /\ UNCHANGED <<targetNg, overagePct, rows, masterMix, loading, error,
                 warning, backendUsed, inflight>>
  /\ UNCHANGED <<sampleText, advice, requests, overlayVars>>

\* setTargetNg(parseFloat(e.target.value) || 0)
setTargetNg ==
  /\ \E t \in EditTargets : t # targetNg /\ targetNg' = t
  /\ UNCHANGED <<samples, overagePct, rows, masterMix, loading, error,
                 warning, backendUsed, inflight>>
  /\ UNCHANGED <<sampleText, advice, requests, overlayVars>>

\* setOveragePct(parseFloat(e.target.value) || 0)
setOveragePct ==
  /\ \E o \in EditOverages : o # overagePct /\ overagePct' = o
  /\ UNCHANGED <<samples, targetNg, rows, masterMix, loading, error,
                 warning, backendUsed, inflight>>
  /\ UNCHANGED <<sampleText, advice, requests, overlayVars>>

\* a session in which the inputs change between and during the runs
NextEdit == Next \/ setSampleText \/ setTargetNg \/ setOveragePct

Spec == Init /\ [][Next]_vars
SpecBatch == InitBatch /\ [][Next]_vars
SpecEdit == InitEdit /\ [][NextEdit]_vars

\* the promise of fetch settles: it resolves with a response, ok or not, or
\* it rejects
fetchSettles ==
  /\ inflight # NULL
  /\ inflight.response = NULL
  /\ (fetchOk \/ fetchNotOk \/ fetchThrows)

\* the promise of response.json() settles: it resolves with the data or it
\* rejects on a body that cannot be read
jsonSettles ==
  /\ inflight # NULL
  /\ inflight.response # NULL
  /\ (jsonResolves \/ fetchThrows)

\* the session with edits, in which every promise the run awaits settles
SpecSettling ==
  /\ InitEdit
  /\ [][NextEdit]_vars
  /\ WF_vars(fetchSettles)
  /\ WF_vars(jsonSettles)

----------------------------------------------------------------------------
(* The first-run setup and the settings: part_008 lines 47-337, 443-585.    *)

SetupFillAll == Txt("Please fill all paths before finishing setup.")
SetupUnable == Txt("Unable to create folders.")
SetupFailed == Txt("Setup failed.")
SetupDenied == Txt("EACCES: permission denied")

\* the white space String.prototype.trim removes
WhiteSpace == {" ", "\t", "\n", "\r"}

\* String.prototype.trim on a sequence of parts or of characters
RECURSIVE trimStart(_)
trimStart(s) ==
  IF s # <<>> /\ Head(s) \in WhiteSpace THEN trimStart(Tail(s)) ELSE s

RECURSIVE trimEnd(_)
trimEnd(s) ==
  IF s # <<>> /\ s[Len(s)] \in WhiteSpace
  THEN trimEnd(SubSeq(s, 1, Len(s) - 1)) ELSE s

\* a path left as typed
untrimmed(s) == s

trim(s) == trimEnd(trimStart(s))

\* const trimmed: AppPaths = { dataPath: paths.dataPath.trim(), ... }
trimmedOf(p) == [k \in PathKeys |-> trim(p[k])]

\* Object.entries(trimmed).filter(([, value]) => !value)
missingOf(trimmed) == {k \in PathKeys : trimmed[k] = <<>>}

\* the number of calls of handleFinishSetup that may await at a time
MaxFinishing == 2

\* what the user types into a path field, and the fields typed into
PathTexts == {<<>>, <<" ">>, <<" ", "D:/lab", " ">>}
EditedKeys == {"syncPath"}

\* the items localStorage may hold at startup: none, the paths of an earlier
\* setup, or an item without a sync path
StoredItems ==
  {NULL, fallbackPaths,
   [k \in PathKeys \ {"syncPath"} |-> fallbackPaths[k]]}

\* what ensureDirectories may resolve with: { ok: true } in the web build,
\* whatever the main process answers in the desktop build
EnsureResults ==
  IF desktop
  THEN {[ok |-> TRUE], [ok |-> FALSE, message |-> SetupDenied],
        [ok |-> FALSE, message |-> EMPTY], NULL}
  ELSE {[ok |-> TRUE]}

\* result?.ok
okOf(result) == result # NULL /\ result.ok

\* result?.message || 'Unable to create folders.'
messageOf(result) ==
  IF result # NULL /\ result.message # EMPTY THEN result.message
  ELSE SetupUnable

InitSetup ==
  /\ samples = <<>>
  /\ targetNg = Dec(200, 1)
  /\ overagePct = Dec(10, 1)
  /\ sampleText = NULL
  /\ Idle
  /\ storage \in StoredItems
  /\ desktop \in BOOLEAN
  /\ setupInitially(readStoredPaths(storage))
  /\ steps = <<[selector |-> 1]>>
  /\ tutorialInitially
  /\ advice = NULL
  /\ requests = <<>>

\* the overlay that shows the path fields
overlayShown == setupOpen \/ settingsOpen

\* updatePath(field.key, event.target.value)
updatePath ==
  /\ overlayShown
  /\ \E key \in EditedKeys, value \in PathTexts :
       /\ value # paths[key]
       /\ paths' = [paths EXCEPT ![key] = value]
  /\ UNCHANGED <<storage, desktop, defaultPaths, setupOpen, settingsOpen,
                 setupError, savingSetup, finishing>>
  /\ UNCHANGED <<appVars, advice, requests, tutorialVars>>

handleUseDefaults ==
  /\ overlayShown
  /\ paths' = defaultPaths
  /\ setupError' = NULL
  /\ UNCHANGED <<storage, desktop, defaultPaths, setupOpen, settingsOpen,
                 savingSetup, finishing>>
  /\ UNCHANGED <<appVars, advice, requests, tutorialVars>>

\* onClick={() => setSettingsOpen(true)}
openSettings ==
  /\ ~settingsOpen
  /\ settingsOpen' = TRUE
  /\ UNCHANGED <<storage, desktop, paths, defaultPaths, setupOpen,
                 setupError, savingSetup, finishing>>
  /\ UNCHANGED <<appVars, advice, requests, tutorialVars>>

\* onClick={() => setSettingsOpen(false)}
closeSettings ==
  /\ settingsOpen
  /\ settingsOpen' = FALSE
  /\ UNCHANGED <<storage, desktop, paths, defaultPaths, setupOpen,
                 setupError, savingSetup, finishing>>
  /\ UNCHANGED <<appVars, advice, requests, tutorialVars>>

\* handleFinishSetup up to the await with the paths trimmed to trimmed:
\* lines 308-322
finishSetupWith(trimmed) ==
  IF missingOf(trimmed) # {}
  THEN /\ setupError' = SetupFillAll
       /\ savingSetup' = FALSE
       /\ UNCHANGED finishing
  ELSE /\ setupError' = NULL
       /\ savingSetup' = TRUE
       /\ finishing' = Append(finishing, [trimmed |-> trimmed, result |-> NULL,
                                          settled |-> FALSE])

\* a click on Finish setup (disabled while saving) or on Save settings
handleFinishSetup ==
  /\ (setupOpen /\ ~savingSetup) \/ settingsOpen
  /\ Len(finishing) < MaxFinishing
  /\ finishSetupWith(trimmedOf(paths))
  /\ UNCHANGED <<storage, desktop, paths, defaultPaths, setupOpen,
                 settingsOpen>>
  /\ UNCHANGED <<appVars, advice, requests, tutorialVars>>

\* finishing without call i
withoutCall(i) ==
  SubSeq(finishing, 1, i - 1) \o SubSeq(finishing, i + 1, Len(finishing))

\* the promise of ensureDirectories resolves for call i
ensureResolves ==
  /\ \E i \in 1..Len(finishing), result \in EnsureResults :
       /\ ~finishing[i].settled
       /\ finishing' = [finishing EXCEPT ![i].result = result,
                                         ![i].settled = TRUE]
  /\ UNCHANGED <<storage, desktop, paths, defaultPaths, setupOpen,
                 settingsOpen, setupError, savingSetup>>
  /\ UNCHANGED <<appVars, advice, requests, tutorialVars>>

\* call i resumes after the await: lines 323-331 and the finally
finishSetupResumes ==
  /\ \E i \in 1..Len(finishing) :
       /\ finishing[i].settled
       /\ IF okOf(finishing[i].result)
          THEN /\ storage' = finishing[i].trimmed
               /\ setupOpen' = FALSE
               /\ settingsOpen' = FALSE
               /\ UNCHANGED setupError
          ELSE /\ setupError' = messageOf(finishing[i].result)
               /\ UNCHANGED <<storage, setupOpen, settingsOpen>>
       /\ savingSetup' = FALSE
       /\ finishing' = withoutCall(i)
  /\ UNCHANGED <<desktop, paths, defaultPaths>>
  /\ UNCHANGED <<appVars, advice, requests, tutorialVars>>

\* the promise of ensureDirectories rejects for call i: the catch and the
\* finally, lines 332-336
ensureRejects ==
  /\ desktop
  /\ \E i \in 1..Len(finishing), message \in {SetupFailed, SetupDenied} :
       /\ ~finishing[i].settled
       /\ setupError' = message
       /\ finishing' = withoutCall(i)
  /\ savingSetup' = FALSE
  /\ UNCHANGED <<storage, desktop, paths, defaultPaths, setupOpen,
                 settingsOpen>>
  /\ UNCHANGED <<appVars, advice, requests, tutorialVars>>

NextSetup ==
  \/ updatePath
  \/ handleUseDefaults
  \/ openSettings
  \/ closeSettings
  \/ handleFinishSetup
  \/ ensureResolves
  \/ finishSetupResumes
  \/ ensureRejects

SpecSetup == InitSetup /\ [][NextSetup]_vars

----------------------------------------------------------------------------
(* The guided tutorial: GuidedTutorial.tsx lines 19-106.                    *)

\* the longest list of steps, the lists and the rectangles of the elements
MaxSteps == 7
\* a step is known by its selector
StepLists == {[i \in 1..n |-> [selector |-> i]] : n \in 0..MaxSteps}
Rects == {[top |-> 0, left |-> 0], [top |-> 400, left |-> 24]}

InitTutorial ==
  /\ samples = <<>>
  /\ targetNg = Dec(200, 1)
  /\ overagePct = Dec(10, 1)
  /\ sampleText = NULL
  /\ Idle
  /\ storage = fallbackPaths
  /\ desktop = FALSE
  /\ setupInitially(readStoredPaths(storage))
  /\ steps \in StepLists
  /\ tutorialInitially
  /\ advice = NULL
  /\ requests = <<>>

\* const hasSteps = steps.length > 0
hasSteps == Len(steps) > 0

\* const current = hasSteps ? steps[stepIndex] : null, NULL for undefined too
current ==
  IF hasSteps /\ stepIndex + 1 \in DOMAIN steps THEN steps[stepIndex + 1]
  ELSE NULL

\* {open && current && ( ... )}: the dialog with Back, Next and Skip
dialogShown == open /\ current # NULL

startTutorial ==
  /\ hasSteps
  /\ stepIndex' = 0
  /\ open' = TRUE
  /\ UNCHANGED <<steps, targetRect, targetFound>>
  /\ UNCHANGED <<appVars, advice, requests, setupVars>>

\* the state closeTutorial sets
closing ==
  /\ open' = FALSE
  /\ targetRect' = NULL
  /\ targetFound' = TRUE

closeTutorial ==
  /\ dialogShown
  /\ closing
  /\ UNCHANGED <<steps, stepIndex>>
  /\ UNCHANGED <<appVars, advice, requests, setupVars>>

\* a nextStep that advances on the last step too
nextStepAdvancing ==
  /\ dialogShown
  /\ stepIndex' = stepIndex + 1
  /\ UNCHANGED <<steps, open, targetRect, targetFound>>
  /\ UNCHANGED <<appVars, advice, requests, setupVars>>

nextStep ==
  /\ dialogShown
  /\ IF stepIndex >= Len(steps) - 1
     THEN closing /\ UNCHANGED stepIndex
     ELSE stepIndex' = stepIndex + 1 /\ UNCHANGED <<open, targetRect, targetFound>>
  /\ UNCHANGED steps
  /\ UNCHANGED <<appVars, advice, requests, setupVars>>

\* setStepIndex((prev) => Math.max(0, prev - 1))
prevStep ==
  /\ dialogShown
  /\ stepIndex' = IF stepIndex - 1 > 0 THEN stepIndex - 1 ELSE 0
  /\ UNCHANGED <<steps, open, targetRect, targetFound>>
  /\ UNCHANGED <<appVars, advice, requests, setupVars>>

\* update of the effect, on its timer, a resize or a scroll: the element of
\* the current step is looked up
update ==
  /\ dialogShown
  /\ \/ targetFound' = FALSE /\ targetRect' = NULL
     \/ targetFound' = TRUE /\ targetRect' \in Rects
  /\ UNCHANGED <<steps, open, stepIndex>>
  /\ UNCHANGED <<appVars, advice, requests, setupVars>>

NextTutorial ==
  startTutorial \/ closeTutorial \/ nextStep \/ prevStep \/ update

SpecTutorial == InitTutorial /\ [][NextTutorial]_vars

----------------------------------------------------------------------------
(* parseSamples: App.tsx lines 22-34.  A text is the sequence of its        *)
(* characters.                                                              *)

Digits == <<"0", "1", "2", "3", "4", "5", "6", "7", "8", "9">>
Uppers == <<"A", "B", "C", "D", "E", "F", "G", "H", "I", "J", "K", "L", "M",
            "N", "O", "P", "Q", "R", "S", "T", "U", "V", "W", "X", "Y", "Z">>
Lowers == <<"a", "b", "c", "d", "e", "f", "g", "h", "i", "j", "k", "l", "m",
            "n", "o", "p", "q", "r", "s", "t", "u", "v", "w", "x", "y", "z">>

IsDigit(c) == \E d \in DOMAIN Digits : Digits[d] = c
digitOf(c) == (CHOOSE d \in DOMAIN Digits : Digits[d] = c) - 1

\* String.prototype.toLowerCase
lowerOf(c) ==
  IF \E i \in DOMAIN Uppers : Uppers[i] = c
  THEN Lowers[CHOOSE i \in DOMAIN Uppers : Uppers[i] = c]
  ELSE c
toLowerCase(s) == [i \in DOMAIN s |-> lowerOf(s[i])]

\* String.prototype.includes
includes(s, w) ==
  \E i \in 1..(Len(s) - Len(w) + 1) : SubSeq(s, i, i + Len(w) - 1) = w

\* String.prototype.split: at each character of seps, or at each run of
\* them when runs is TRUE; after is TRUE behind a separator
RECURSIVE splitFrom(_, _, _, _, _, _)
splitFrom(s, seps, runs, after, cur, acc) ==
  IF s = <<>> THEN Append(acc, cur)
  ELSE IF Head(s) \notin seps
  THEN splitFrom(Tail(s), seps, runs, FALSE, Append(cur, Head(s)), acc)
  ELSE IF runs /\ after THEN splitFrom(Tail(s), seps, runs, TRUE, cur, acc)
  ELSE splitFrom(Tail(s), seps, runs, TRUE, <<>>, Append(acc, cur))

split(s, seps, runs) == splitFrom(s, seps, runs, FALSE, <<>>, <<>>)

\* the index behind the digits of s from i on
RECURSIVE digitsEnd(_, _)
digitsEnd(s, i) ==
  IF i <= Len(s) /\ IsDigit(s[i]) THEN digitsEnd(s, i + 1) ELSE i

\* the number the digits ds denote
RECURSIVE natOf(_)
natOf(ds) ==
  IF ds = <<>> THEN 0
  ELSE 10 * natOf(SubSeq(ds, 1, Len(ds) - 1)) + digitOf(ds[Len(ds)])

Min(a, b) == IF a < b THEN a ELSE b

RECURSIVE TenTo(_)
TenTo(p) == IF p = 0 THEN 1 ELSE 10 * TenTo(p - 1)

\* the sign a numeral starts with and the numeral behind it
signOf(s) == IF s # <<>> /\ s[1] = "-" THEN -1 ELSE 1
unsignedOf(s) == IF s # <<>> /\ s[1] \in {"+", "-"} THEN Tail(s) ELSE s

\* the digits of the mantissa of u, the number of them behind the point and
\* the rest of u; i is behind the digits before the point, j behind those
\* after it
fractionAt(u, i, j) ==
  [digits |-> SubSeq(u, 1, i - 1) \o SubSeq(u, i + 1, j - 1),
   scale  |-> j - i - 1,
   rest   |-> SubSeq(u, j, Len(u))]

mantissaAt(u, i) ==
  IF i <= Len(u) /\ u[i] = "." THEN fractionAt(u, i, digitsEnd(u, i + 1))
  ELSE [digits |-> SubSeq(u, 1, i - 1), scale |-> 0,
        rest |-> SubSeq(u, i, Len(u))]

mantissaOf(u) == mantissaAt(u, digitsEnd(u, 1))

\* the exponent r starts with: e or E, a sign and digits; 0 without one
exponentOf(r) ==
  IF r # <<>> /\ r[1] \in {"e", "E"}
       /\ digitsEnd(unsignedOf(Tail(r)), 1) > 1
  THEN signOf(Tail(r))
         * natOf(SubSeq(unsignedOf(Tail(r)), 1,
                        digitsEnd(unsignedOf(Tail(r)), 1) - 1))
  ELSE 0

\* the numeral of sign * n / d, -0 having its sign
signedDec(sign, n, d) ==
  IF n = 0 /\ sign < 0 THEN Dec(0, -d) ELSE Dec(sign * n, d)

\* the numeral of sign * n * 10^p
scaledDec(sign, n, p) ==
  IF p >= 0 THEN signedDec(sign, n * TenTo(p), 1)
  ELSE signedDec(sign, n, TenTo(-p))

decimalOf(sign, m) ==
  IF m.digits = <<>> THEN DecNaN
  ELSE scaledDec(sign, natOf(m.digits), exponentOf(m.rest) - m.scale)

\* parseFloat(s) for s without white space in front: Infinity, or the
\* longest decimal literal s starts with, or NaN
parseFloat(s) ==
  IF includes(SubSeq(unsignedOf(s), 1, Min(8, Len(unsignedOf(s)))),
              <<"I", "n", "f", "i", "n", "i", "t", "y">>)
  THEN DecInf(signOf(s))
  ELSE decimalOf(signOf(s), mantissaOf(unsignedOf(s)))

NotEmpty(s) == s # <<>>
NotBlank(s) == trim(s) # <<>>

\* a test that takes either word for a header
isHeaderEither(line) ==
  \/ includes(toLowerCase(line), <<"s", "a", "m", "p", "l", "e">>)
  \/ includes(toLowerCase(line), <<"c", "o", "n", "c">>)

\* line.toLowerCase().includes('sample') &&
\* line.toLowerCase().includes('conc')
isHeader(line) ==
  /\ includes(toLowerCase(line), <<"s", "a", "m", "p", "l", "e">>)
  /\ includes(toLowerCase(line), <<"c", "o", "n", "c">>)

\* line.split(/[, \t]+/).map(p => p.trim())
trimmedParts(parts) == [i \in DOMAIN parts |-> trim(parts[i])]

\* ... .filter(Boolean)
partsOf(line) ==
  SelectSeq(trimmedParts(split(line, {",", " ", "\t"}, TRUE)), NotEmpty)

\* what the body of the loop pushes for the parts of a line
pushed(parts) ==
  IF Len(parts) >= 2 /\ parseFloat(parts[2]) # DecNaN
  THEN <<[sample |-> parts[1], conc |-> parseFloat(parts[2])]>>
  ELSE <<>>

RECURSIVE parsedLines(_)
parsedLines(lines) ==
  IF lines = <<>> THEN <<>>
  ELSE (IF isHeader(Head(lines)) THEN <<>> ELSE pushed(partsOf(Head(lines))))
         \o parsedLines(Tail(lines))

\* text.trim().split('\n').filter(l => l.trim())
linesOf(text) == SelectSeq(split(trim(text), {"\n"}, FALSE), NotBlank)

parseSamples(text) == parsedLines(linesOf(text))

\* the lines pasted, each with the samples it is to yield
LinePool ==
  << \* a header
     [line |-> <<"S", "a", "m", "p", "l", "e", ",", "C", "o", "n", "c">>,
      yields |-> <<>>],
     \* a header in capitals
     [line |-> <<"S", "A", "M", "P", "L", "E", "\t", "C", "O", "N", "C">>,
      yields |-> <<>>],
     \* a name with the word sample
     [line |-> <<"S", "a", "m", "p", "l", "e", "1", ",", "1", "7", "8", ".",
               "2">>,
      yields |-> <<[sample |-> <<"S", "a", "m", "p", "l", "e", "1">>,
                 conc |-> Dec(1782, 10)]>>],
     \* a tab, and a carriage return at the end
     [line |-> <<"B", "\t", "5", "\r">>,
      yields |-> <<[sample |-> <<"B">>, conc |-> Dec(5, 1)]>>],
     \* two blanks, and a number with text behind it
     [line |-> <<"C", " ", " ", "1", "2", "a", "b">>,
      yields |-> <<[sample |-> <<"C">>, conc |-> Dec(12, 1)]>>],
     \* no number
     [line |-> <<"D", ",", "a", "b">>,
      yields |-> <<>>],
     \* one field
     [line |-> <<"E">>,
      yields |-> <<>>],
     \* a blank line
     [line |-> <<" ", " ">>,
      yields |-> <<>>],
     \* NaN
     [line |-> <<"F", ",", "N", "a", "N">>,
      yields |-> <<>>],
     \* Infinity
     [line |-> <<"G", ",", "I", "n", "f", "i", "n", "i", "t", "y">>,
      yields |-> <<[sample |-> <<"G">>, conc |-> DecInf(1)]>>],
     \* an exponent
     [line |-> <<"H", ",", " ", "1", "e", "2">>,
      yields |-> <<[sample |-> <<"H">>, conc |-> Dec(100, 1)]>>],
     \* both words in a name
     [line |-> <<"c", "o", "n", "c", "_", "s", "a", "m", "p", "l", "e", ",",
               "7">>,
      yields |-> <<>>],
     \* no name
     [line |-> <<",", "5">>,
      yields |-> <<>>],
     \* three fields
     [line |-> <<"I", ",", "-", ".", "5", ",", "x">>,
      yields |-> <<[sample |-> <<"I">>, conc |-> Dec(-5, 10)]>>] >>

\* the number of lines of a pasted text, and the texts: lines of the pool
\* with a line feed between them
MaxLines == 2
LineLists == UNION {[1..n -> DOMAIN LinePool] : n \in 0..MaxLines}

RECURSIVE textOf(_)
textOf(ix) ==
  IF ix = <<>> THEN <<>>
  ELSE IF Len(ix) = 1 THEN LinePool[ix[1]].line
  ELSE LinePool[ix[1]].line \o <<"\n">> \o textOf(Tail(ix))

\* the number of lines of a text
lineCount(text) ==
  IF text = <<>> THEN 0
  ELSE 1 + Len(SelectSeq(text, LAMBDA c : c = "\n"))

\* the values an edit of the textarea leaves in it: nothing, or the text
\* with one more line typed at its end
EditedTexts(text) ==
  {<<>>} \cup
    IF lineCount(text) >= MaxLines THEN {}
    ELSE {IF text = <<>> THEN LinePool[k].line
          ELSE text \o <<"\n">> \o LinePool[k].line : k \in DOMAIN LinePool}

\* the text the textarea proposes: a header and Sample1,178.2
InitParse ==
  /\ sampleText = textOf(<<1, 3>>)
  /\ samples = parseSamples(sampleText)
  /\ targetNg = Dec(200, 1)
  /\ overagePct = Dec(10, 1)
  /\ Idle
  /\ Settled

\* the textarea changes: setSampleText(e.target.value), and useMemo parses
\* the text again
pasteSampleText ==
  /\ \E text \in EditedTexts(sampleText) :
       /\ text # sampleText
       /\ sampleText' = text
       /\ samples' = parseSamples(text)
  /\ UNCHANGED <<targetNg, overagePct, rows, masterMix, loading, error,
                 warning, backendUsed, inflight>>
  /\ UNCHANGED <<advice, requests, overlayVars>>

NextParse == pasteSampleText

SpecParse == InitParse /\ [][NextParse]_vars

----------------------------------------------------------------------------
(* suggestDilution on its own: App.tsx lines 48-61.                         *)

\* 2^e
TwoTo(e) == FRound(1, <<1>>, e, FALSE)

\* the volumes suggestDilution is called with: 1/200 to 99/200, 1e-9, the
\* smallest number 2^-1074, 2^-1030 and 2^-1025, and 0, -1/4 and -1
GridSteps == 99
ReqInputs ==
  {FDiv(FOfInt(k), FOfInt(200)) : k \in 1..GridSteps}
    \cup {FDiv(FOfInt(1), FOfInt(1000000000)),
          TwoTo(EXP_MIN), TwoTo(-1030), TwoTo(-1025),
          FZero, FOfDec(Dec(-1, 4)), FOfInt(-1)}

InitAdvisor ==
  /\ sampleText = NULL
  /\ samples = <<>>
  /\ targetNg = Dec(200, 1)
  /\ overagePct = Dec(10, 1)
  /\ Idle
  /\ storage = fallbackPaths
  /\ desktop = FALSE
  /\ setupInitially(readStoredPaths(storage))
  /\ steps = <<[selector |-> 1]>>
  /\ tutorialInitially
  /\ advice = NULL
  /\ requests = <<>>

\* const sug = suggestDilution(req), the one call of a behaviour
advise ==
  /\ advice = NULL
  /\ \E r \in ReqInputs :
       advice' = [req |-> r, sug |-> suggestDilution(r)]
  /\ UNCHANGED <<appVars, requests, overlayVars>>

NextAdvisor == advise

SpecAdvisor == InitAdvisor /\ [][NextAdvisor]_vars

----------------------------------------------------------------------------
(* The runs of handleCalculate side by side: src/unnamed/part_008 lines     *)
(* 341-379, behind the button of lines 688-696.  Each click that passes the *)
(* guard starts a run of its own, which keeps the inputs it captured until  *)
(* its request settles; requests lists the runs that are awaiting.          *)

MaxRequests == 2

\* requests without the run i
withoutRun(i) ==
  SubSeq(requests, 1, i - 1) \o SubSeq(requests, i + 1, Len(requests))

\* lines 346-353 and the call of fetch of a new run
startRun(local, body) ==
  /\ loading' = TRUE
  /\ error' = NULL
  /\ warning' = NULL
  /\ rows' = local.rows
  /\ masterMix' = local.masterMix
  /\ backendUsed' = FALSE
  /\ requests' = Append(requests,
                        [local |-> local, body |-> body, response |-> NULL])

\* a click on a button that is never disabled
calculateClickedEnabled ==
  /\ Len(requests) < MaxRequests
  /\ IF Len(samples) = 0
     THEN /\ error' = NoInput
          /\ UNCHANGED <<rows, masterMix, loading, warning, backendUsed,
                         requests>>
     ELSE startRun(calcLocally(samples, targetNg, overagePct),
                   bodyOf(samples, targetNg, overagePct))
  /\ UNCHANGED <<sampleText, samples, targetNg, overagePct, inflight, advice,
                 overlayVars>>

\* a click on the Calculate button, disabled={loading}: handleCalculate up
\* to the first await
calculateClicked ==
  /\ ~loading
  /\ Len(requests) < MaxRequests
  /\ IF Len(samples) = 0
     THEN /\ error' = NoInput
          /\ UNCHANGED <<rows, masterMix, loading, warning, backendUsed,
                         requests>>
     ELSE startRun(calcLocally(samples, targetNg, overagePct),
                   bodyOf(samples, targetNg, overagePct))
  /\ UNCHANGED <<sampleText, samples, targetNg, overagePct, inflight, advice,
                 overlayVars>>

\* the fetch of run i resolves with response.ok: line 366
responseOk ==
  /\ \E i \in 1..Len(requests) :
       /\ requests[i].response = NULL
       /\ \E data \in BackendBodies(requests[i].local) :
            requests' = [requests EXCEPT ![i].response = data]
  /\ UNCHANGED <<sampleText, samples, targetNg, overagePct, rows, masterMix,
                 loading, error, warning, backendUsed, inflight, advice,
                 overlayVars>>

\* response.json() of run i resolves: lines 367-370, 376-378
runResolves ==
  /\ \E i \in 1..Len(requests) :
       /\ requests[i].response # NULL
       /\ rows' = IF requests[i].response.rows # NULL
                  THEN requests[i].response.rows
                  ELSE requests[i].local.rows
       /\ masterMix' = IF requests[i].response.master_mix # NULL
                       THEN requests[i].response.master_mix
                       ELSE requests[i].local.masterMix
       /\ requests' = withoutRun(i)
  /\ backendUsed' = TRUE
  /\ loading' = FALSE
  /\ UNCHANGED <<sampleText, samples, targetNg, overagePct, error, warning,
                 inflight, advice, overlayVars>>

\* the response of run i is not ok, or its fetch or its response.json()
\* rejects: lines 371-378
runFails ==
  /\ \E i \in 1..Len(requests) : requests' = withoutRun(i)
  /\ warning' = BackendUnavailable
  /\ loading' = FALSE
  /\ UNCHANGED <<sampleText, samples, targetNg, overagePct, rows, masterMix,
                 error, backendUsed, inflight, advice, overlayVars>>

NextOverlap ==
  \/ calculateClicked
  \/ responseOk
  \/ runResolves
  \/ runFails
  \/ setSampleText
  \/ setTargetNg
  \/ setOveragePct

SpecOverlap == InitEdit /\ [][NextOverlap]_vars

----------------------------------------------------------------------------
(* The properties of the rows.  They are stated with exact rationals: a     *)
(* numeral [n, d] is n / d, the volume a sample of concentration c needs    *)
(* for the target t is t / c, MIN_PIP is 1/2 and AVAIL_RNA_H2O is 71/5.     *)

\* handleCalculate has run calcLocally and fetch is pending
Ran == inflight # NULL /\ inflight.response = NULL

\* the row calcLocally made for sample i
localRow(i) == inflight.local.rows[i]

\* the cell x holds a finite number
IsNumber(x) == x # EMPTY /\ x.d > 0

\* t / c against p / q, for a concentration c > 0
ReqGe(c, t, p, q) == t.n * c.d * q >= p * t.d * c.n
ReqLe(c, t, p, q) == t.n * c.d * q <= p * t.d * c.n
ReqLt(c, t, p, q) == ~ReqGe(c, t, p, q)
ReqGt(c, t, p, q) == ~ReqLe(c, t, p, q)

\* the cell x is a number of k-ths, one nearest to p / q (q > 0)
Rounds(x, k, p, q) ==
  IsNumber(x) /\ x.d = k /\ Abs(2 * (x.n * q - k * p)) <= q

\* the cell x is the number p / q
Equals(x, p, q) == IsNumber(x) /\ x.n * q = p * x.d

\* whether the advisor is called for the concentration c and the target t
adviceTable ==
  [c \in ConcValues, t \in TableTargets |->
     advised(required(FOfDec(c), FOfDec(t)))]

\* the factor the note of the row r names, 0 when the note has no recipe
factorOf(r) ==
  IF Len(r.Note) >= 7 /\ r.Note[6] = Txt("Pre-dilute ") THEN r.Note[7].num
  ELSE Dec(0, 1)

\* concentration > 0 and MIN_PIP <= t / c <= AVAIL_RNA_H2O
DirectCase(c, t) == c.n > 0 /\ ReqGe(c, t, 1, 2) /\ ReqLe(c, t, 71, 5)

\* RNA volume t / c and H2O 71/5 - t / c, each to 3 decimals, and no note
DirectVolumes(r, c, t) ==
  /\ Rounds(r.RNAVolume, 1000, t.n * c.d, t.d * c.n)
  /\ Rounds(r.H2O, 1000, 71 * t.d * c.n - 5 * t.n * c.d, 5 * t.d * c.n)
  /\ r.Note = <<>>

\* C1, as amended: a sample of concentration > 0 whose required volume
\* target / concentration is within [0.5, 14.2] gets RNA volume = the
\* required volume to 3 decimals, H2O = 14.2 - the required volume to 3
\* decimals, Achievable RNA = the target rounded to 1 decimal, and an empty
\* Note.
DirectPathRounded ==
  Ran => \A i \in 1..Len(samples) :
    DirectCase(samples[i].conc, targetNg) =>
      /\ DirectVolumes(localRow(i), samples[i].conc, targetNg)
      /\ Rounds(localRow(i).AchievableRNA, 10, targetNg.n, targetNg.d)

\* C1 as claimed: Achievable RNA is the target itself.
DirectPathAsClaimed ==
  Ran => \A i \in 1..Len(samples) :
    DirectCase(samples[i].conc, targetNg) =>
      /\ DirectVolumes(localRow(i), samples[i].conc, targetNg)
      /\ Equals(localRow(i).AchievableRNA, targetNg.n, targetNg.d)

\* a direct row for a target with two decimals: 200.25 ng is shown as 200.3
DirectPathWitness ==
  /\ Ran
  /\ targetNg = Dec(801, 4)
  /\ \E i \in 1..Len(samples) :
       /\ DirectCase(samples[i].conc, targetNg)
       /\ localRow(i).AchievableRNA = Dec(2003, 10)

\* the row of a sample that cannot reach the target: no volumes, the mass
\* c * 71/5 to 1 decimal, and the note of the infeasible branch
TooLowRow(r, c) ==
  /\ r.RNAVolume = EMPTY
  /\ r.H2O = EMPTY
  /\ Rounds(r.AchievableRNA, 10, 71 * c.n, 5 * c.d)
  /\ Len(r.Note) >= 1 /\ r.Note[1] = Txt("Conc too low: max ")

\* C2, as amended: a sample of concentration > 0 with target /
\* concentration > 14.2 gets an empty RNA volume and H2O, Achievable RNA =
\* concentration x 14.2 rounded to 1 decimal, and a Note that starts with
\* "Conc too low".
InfeasiblePositive ==
  Ran => \A i \in 1..Len(samples) :
    (samples[i].conc.n > 0 /\ ReqGt(samples[i].conc, targetNg, 71, 5)) =>
      TooLowRow(localRow(i), samples[i].conc)

\* target / concentration > 14.2, for a concentration of either sign
QuotientAbove(c, t) ==
  \/ c.n > 0 /\ ReqGt(c, t, 71, 5)
  \/ c.n < 0 /\ ReqLt(c, t, 71, 5)

\* C2 as claimed: every sample with target / concentration > 14.2, a
\* negative concentration under a negative target included.
InfeasibleAsClaimed ==
  Ran => \A i \in 1..Len(samples) :
    QuotientAbove(samples[i].conc, targetNg) =>
      TooLowRow(localRow(i), samples[i].conc)

\* 5 ng/ul cannot give 200 ng: at most 71.0 ng
InfeasibleWitness ==
  /\ Ran
  /\ targetNg = Dec(200, 1)
  /\ \E i \in 1..Len(samples) :
       /\ samples[i].conc = Dec(5, 1)
       /\ localRow(i).AchievableRNA = Dec(710, 10)
       /\ localRow(i).RNAVolume = EMPTY

\* C3: a sample with concentration <= 0 gets, for any target, an empty RNA
\* volume, an empty H2O, Achievable RNA = 0 and a non-empty Note, and the
\* dilution advisor is not called for it.
NonPositiveConc ==
  Ran => \A i \in 1..Len(samples) :
    samples[i].conc.n <= 0 =>
      /\ localRow(i).RNAVolume = EMPTY
      /\ localRow(i).H2O = EMPTY
      /\ Equals(localRow(i).AchievableRNA, 0, 1)
      /\ localRow(i).Note # <<>>
      /\ ~adviceTable[samples[i].conc, targetNg]
      /\ factorOf(localRow(i)) = Dec(0, 1)

\* a sample of concentration 0 and one of negative concentration have rows
NonPositiveConcWitness ==
  /\ Ran
  /\ \E i \in 1..Len(samples) : samples[i].conc.n = 0
  /\ \E i \in 1..Len(samples) :
       samples[i].conc.n < 0 /\ localRow(i).RNAVolume = EMPTY

\* The advisor works on the double req it is given.  What it must return is
\* stated for the value of that double, x = m * 2^e, in exact arithmetic.

\* -1, 0, 1 as q * x is less than, equal to, more than p, for a double
\* x >= 0 and naturals q and p given by their limbs
RealCmp(x, q, p) ==
  IF x.e >= 0 THEN BCmp(BShl(BMul(x.m, q), x.e), p)
  ELSE BCmp(BMul(x.m, q), BShl(p, -x.e))

\* x >= p / q and x <= p / q, for naturals p and q > 0
RealGe(x, p, q) == RealCmp(x, BFromNat(q), BFromNat(p)) >= 0
RealLe(x, p, q) == RealCmp(x, BFromNat(q), BFromNat(p)) <= 0

\* the double x is a number > 0
Positive(x) == x.k = "fin" /\ x.s = 1 /\ x.m # <<>>

\* D * x is within [1/2, 71/5]
Fits(D, x) == RealGe(x, 1, 2 * D) /\ RealLe(x, 71, 5 * D)

\* ceil(p / q) for q > 0
CeilDiv(p, q) == -((-p) \div q)

Max(a, b) == IF a >= b THEN a ELSE b

\* the quotient d.q of a division, plus one when it left a remainder
CeilOf(d) == BToNat(d.q) + (IF d.r = <<>> THEN 0 ELSE 1)

\* max(1, ceil((1/2) / x)) for x > 0: the smallest integer D >= 1 with
\* D * x >= 1/2
SmallestFactor(x) ==
  IF x.e >= -1 THEN 1
  ELSE Max(1, CeilOf(BDivMod(BShl(<<1>>, -x.e - 1), x.m)))

\* what the claims ask about the double x: whether it is 0 or more, whether
\* 0 < x < 1/2, which candidates fit, the smallest factor that reaches 1/2
\* and whether that factor keeps the aliquot within 71/5
factsOf(x) ==
  [req      |-> x,
   nonneg   |-> x.k = "fin" /\ (x.m = <<>> \/ x.s = 1),
   below    |-> Positive(x) /\ ~RealGe(x, 1, 2),
   fits     |-> [k \in 1..Len(candidates) |->
                   Positive(x) /\ Fits(candidates[k], x)],
   smallest |-> IF Positive(x) THEN SmallestFactor(x) ELSE 0,
   within   |-> Positive(x) /\ RealLe(x, 71, 5 * SmallestFactor(x))]

\* the facts about req for the concentration c and the target t
reqFacts ==
  [c \in ConcValues, t \in TableTargets |->
     factsOf(required(FOfDec(c), FOfDec(t)))]

\* the row r names the factor D and pipettes D * x, to 3 decimals
DilutedBy(r, D, x) ==
  /\ factorOf(r) = Dec(D, 1)
  /\ IsNumber(r.RNAVolume) /\ r.RNAVolume.d = 1000 /\ r.RNAVolume.n >= 1
  /\ RealGe(x, 2 * r.RNAVolume.n - 1, 2000 * D)
  /\ RealLe(x, 2 * r.RNAVolume.n + 1, 2000 * D)

\* the candidate k fits and none before it does
FirstToFit(f, k) == f.fits[k] /\ \A j \in 1..(k - 1) : ~f.fits[j]

\* the row r is as C4 asks for a req with the facts f
FirstMatchRow(r, f) ==
  \A k \in 1..Len(candidates) :
    FirstToFit(f, k) => DilutedBy(r, candidates[k], f.req)

\* C4: for 0 < req < MIN_PIP with a candidate that fits, the suggestion is
\* the first factor D in the order 2, 3, 4, 5, 10, 20, 50 with
\* 0.5 <= D x req <= 14.2, and the aliquot is D x req: no earlier candidate
\* fits and no later one is chosen.
FirstMatch ==
  Ran => \A i \in 1..Len(samples) :
    reqFacts[samples[i].conc, targetNg].below =>
      FirstMatchRow(localRow(i), reqFacts[samples[i].conc, targetNg])

\* req = 0.1: 5, 10, 20 and 50 all fit and 5 is chosen, the aliquot is 0.5
FirstMatchWitness ==
  /\ Ran
  /\ targetNg = Dec(200, 1)
  /\ \E i \in 1..Len(samples) :
       /\ samples[i].conc = Dec(2000, 1)
       /\ reqFacts[samples[i].conc, targetNg].below
       /\ reqFacts[samples[i].conc, targetNg].fits =
            <<FALSE, FALSE, FALSE, TRUE, TRUE, TRUE, TRUE>>
       /\ factorOf(localRow(i)) = Dec(5, 1)
       /\ localRow(i).RNAVolume = Dec(500, 1000)

\* the row r holds no suggestion
NotDiluted(r) == r.RNAVolume = EMPTY /\ factorOf(r) = Dec(0, 1)

\* the row r is as C5 asks for a req with the facts f that no candidate
\* fits: the suggestion with the smallest factor when the aliquot stays
\* within 71/5, none otherwise; for req = 0 no factor reaches 1/2
FallbackRow(r, f) ==
  IF f.within THEN DilutedBy(r, f.smallest, f.req) ELSE NotDiluted(r)

\* C5 as claimed: when the advisor is called and no candidate fits, the
\* factor is D = max(1, ceil(0.5 / req)), the smallest integer factor with
\* D x req >= 0.5, and a suggestion with that D is returned if
\* D x req <= 14.2 and none otherwise.
FallbackAsClaimed ==
  Ran => \A i \in 1..Len(samples) :
    ( /\ adviceTable[samples[i].conc, targetNg]
      /\ reqFacts[samples[i].conc, targetNg].nonneg
      /\ \A k \in 1..Len(candidates) :
           ~reqFacts[samples[i].conc, targetNg].fits[k] )
    => FallbackRow(localRow(i), reqFacts[samples[i].conc, targetNg])

AtMinPip(c, t) == c.n > 0 /\ 2 * t.n * c.d = t.d * c.n
AtAvailable(c, t) == c.n > 0 /\ 5 * t.n * c.d = 71 * t.d * c.n

\* C7: a required volume equal to MIN_PIP takes the direct path (RNA volume
\* 0.5, empty Note, no dilution recipe) and a required volume equal to the
\* available volume is feasible (RNA volume 14.2, H2O 0, no "Conc too low").
InclusiveBoundaries ==
  Ran => \A i \in 1..Len(samples) :
    /\ AtMinPip(samples[i].conc, targetNg) =>
         /\ Equals(localRow(i).RNAVolume, 1, 2)
         /\ localRow(i).Note = <<>>
    /\ AtAvailable(samples[i].conc, targetNg) =>
         /\ Equals(localRow(i).RNAVolume, 71, 5)
         /\ Equals(localRow(i).H2O, 0, 1)
         /\ localRow(i).Note = <<>>

\* 142 ng from 284 ng/ul is 0.5 ul and from 10 ng/ul is 14.2 ul
InclusiveBoundariesWitness ==
  /\ Ran
  /\ \E i \in 1..Len(samples) :
       /\ AtMinPip(samples[i].conc, targetNg)
       /\ localRow(i).RNAVolume = Dec(500, 1000)
  /\ \E i \in 1..Len(samples) :
       /\ AtAvailable(samples[i].conc, targetNg)
       /\ localRow(i).H2O = Dec(0, 1000)

\* n + 1 rows, the sample rows in input order with their names, the
\* master-mix row last and with the greatest _order
ShapeOf(rs, smpls) ==
  /\ Len(rs) = Len(smpls) + 1
  /\ \A i \in 1..Len(smpls) :
       /\ rs[i].Sample = <<Txt(smpls[i].sample)>>
       /\ rs[i].order = i - 1
       /\ rs[i].order < rs[Len(rs)].order
  /\ rs[Len(rs)].Sample[1] = Txt("MASTER MIX (")
  /\ \A i \in 1..Len(smpls) : rs[i].Sample[1] # Txt("MASTER MIX (")

\* C8, as amended: for n >= 1 samples calcLocally returns n + 1 rows; row i
\* carries the name of input sample i and its concentration when that is
\* finite, an empty concentration cell when it is not, in input order, and
\* the single master-mix row is the last row and has the greatest _order.
OutputShape ==
  (Ran /\ Len(samples) >= 1) =>
    /\ ShapeOf(inflight.local.rows, samples)
    /\ \A i \in 1..Len(samples) :
         localRow(i).RNAConc =
           IF samples[i].conc.d > 0 THEN samples[i].conc ELSE EMPTY

\* C8 as claimed: every row carries the concentration of its sample.
OutputShapeAsClaimed ==
  (Ran /\ Len(samples) >= 1) =>
    /\ ShapeOf(inflight.local.rows, samples)
    /\ \A i \in 1..Len(samples) : localRow(i).RNAConc = samples[i].conc

\* two samples, the first pasted as Infinity
OutputShapeWitness ==
  /\ Ran
  /\ Len(samples) = 2
  /\ samples[1].conc = DecInf(1)
  /\ localRow(1).RNAConc = EMPTY
  /\ localRow(2).RNAConc = samples[2].conc
  /\ Len(inflight.local.rows) = 3

\* C9 as claimed: n_total = max(1, ceil(n x (1 + overage / 100))).
TotalReactionsAsClaimed ==
  Ran => inflight.local.masterMix.n_total =
           Max(1, CeilDiv(Len(samples) * (100 * overagePct.d + overagePct.n),
                          100 * overagePct.d))

\* the master-mix row of the local result
mixRow == inflight.local.rows[Len(inflight.local.rows)]

\* C10: each of the four reagent totals is its volume per reaction (2.0,
\* 0.8, 2.0, 1.0) times n_total, the four values of the master-mix row are
\* the four values of the masterMix object, and n_samples is the number of
\* input samples.
MasterMixTotals ==
  Ran =>
    /\ Equals(inflight.local.masterMix.buffer10x,
              2 * inflight.local.masterMix.n_total, 1)
    /\ Equals(inflight.local.masterMix.dNTPs,
              8 * inflight.local.masterMix.n_total, 10)
    /\ Equals(inflight.local.masterMix.RandomPrimers,
              2 * inflight.local.masterMix.n_total, 1)
    /\ Equals(inflight.local.masterMix.Enzyme,
              inflight.local.masterMix.n_total, 1)
    /\ mixRow.buffer10x = inflight.local.masterMix.buffer10x
    /\ mixRow.dNTPs = inflight.local.masterMix.dNTPs
    /\ mixRow.RandomPrimers = inflight.local.masterMix.RandomPrimers
    /\ mixRow.Enzyme = inflight.local.masterMix.Enzyme
    /\ inflight.local.masterMix.n_samples = Len(samples)

\* 4 samples and 10 % overage: 5 reactions, 4.0 ul of dNTPs
MasterMixTotalsWitness ==
  /\ Ran
  /\ Len(samples) = 4
  /\ overagePct = Dec(10, 1)
  /\ inflight.local.masterMix.n_total = 5
  /\ inflight.local.masterMix.dNTPs = Dec(4000, 1000)
  /\ mixRow.Enzyme = Dec(5000, 1000)
  /\ inflight.local.masterMix.n_samples = 4

\* C11: the master-mix row has empty cells for the concentration, the RNA
\* volume, H2O, the final volume and the achievable mass, and every sample
\* row carries the volumes of one reaction, 2.0, 0.8, 2.0 and 1.0, and the
\* final volume 20.
MasterRowEmptyCells ==
  Ran =>
    /\ mixRow.RNAConc = EMPTY
    /\ mixRow.RNAVolume = EMPTY
    /\ mixRow.H2O = EMPTY
    /\ mixRow.finalVolume = EMPTY
    /\ mixRow.AchievableRNA = EMPTY
    /\ \A i \in 1..Len(samples) :
         /\ Equals(localRow(i).buffer10x, 2, 1)
         /\ Equals(localRow(i).dNTPs, 4, 5)
         /\ Equals(localRow(i).RandomPrimers, 2, 1)
         /\ Equals(localRow(i).Enzyme, 1, 1)
         /\ Equals(localRow(i).finalVolume, 20, 1)

\* 2 samples and 10 % overage: 3 reactions, 6.0 ul of buffer in the
\* master-mix row and 2.0 ul in each sample row
MasterRowEmptyCellsWitness ==
  /\ Ran
  /\ Len(samples) = 2
  /\ inflight.local.masterMix.n_total = 3
  /\ mixRow.buffer10x = Dec(6000, 1000)
  /\ mixRow.finalVolume = EMPTY
  /\ Equals(localRow(2).buffer10x, 2, 1)
  /\ Equals(localRow(2).finalVolume, 20, 1)

\* the local result of the pending run, computed again in this state from
\* the inputs the run was started with
localAgain ==
  calcLocally(inflight.body.samples, inflight.body.target_ng,
              inflight.body.overage_pct)

rowAt(res, i) == IF i < Len(res.rows) THEN res.rows[i] ELSE NULL

\* the list smpls with s at position j
Replaced(smpls, j, s) == [smpls EXCEPT ![j] = s]

\* the samples put at another position: without a concentration, with a
\* negative one, with one too low for 200 ng, pasted as Infinity, and one
\* that is pipetted directly
OtherSamples ==
  { s \in SamplePool :
      s.conc \in { Dec(0, 1), Dec(-1, 1), Dec(5, 1), DecInf(1), Dec(1782, 10) } }

\* C13: the row of the sample at position i is the row calcLocally returns
\* at position i for every list that agrees with the list at position i:
\* with a degenerate, an infeasible or a feasible sample at another
\* position, with the list cut after position i, and with any overage.
PerSampleIndependence ==
  Ran => \A i \in 1..Len(samples) :
    /\ rowAt(inflight.local, i) # NULL
    /\ \A j \in 1..Len(samples), s \in OtherSamples :
         j # i =>
           rowAt(calcLocally(Replaced(samples, j, s), targetNg, overagePct), i)
             = rowAt(inflight.local, i)
    /\ rowAt(calcLocally(SubSeq(samples, 1, i), targetNg, overagePct), i)
         = rowAt(inflight.local, i)
    /\ \A o \in OverageValues :
         rowAt(calcLocally(samples, targetNg, o), i) = rowAt(inflight.local, i)

\* a sample without concentration before a sample pipetted directly: the
\* first row has no volume, the second has its volume
PerSampleIndependenceWitness ==
  /\ Ran
  /\ Len(samples) = 2
  /\ samples[1].conc = Dec(0, 1)
  /\ samples[2].conc = Dec(1782, 10)
  /\ targetNg = Dec(200, 1)
  /\ localRow(1).RNAVolume = EMPTY
  /\ localRow(2).RNAVolume = Dec(1122, 1000)
  /\ localRow(2) =
       rowAt(calcLocally(Replaced(samples, 1, samples[2]), targetNg,
                         overagePct), 2)

\* C14 as claimed: the row of a sample whose concentration is not a finite
\* number is the row of a concentration that is not positive: its RNA
\* volume and H2O are empty and its note is not.
NonFiniteConcAsClaimed ==
  Ran => \A i \in 1..Len(samples) :
    samples[i].conc.d = 0 =>
      /\ localRow(i).RNAVolume = EMPTY
      /\ localRow(i).H2O = EMPTY
      /\ localRow(i).Note # <<>>

\* a click on Calculate with an empty sample list sets the error and leaves
\* the rows, the totals, loading, the warning and the pending request alone
RefusedClick ==
  (handleCalculate /\ Len(samples) = 0) =>
    /\ error' = NoInput
    /\ UNCHANGED <<rows, masterMix, loading, warning, inflight>>

\* C15: with an empty sample list a click on Calculate sets the error
\* message and runs neither calcLocally nor a request: rows, masterMix,
\* loading and warning are unchanged; and a lone master-mix row is never
\* displayed.
EmptyInputGuard == [](Len(rows) # 1) /\ [][RefusedClick]_vars

\* the click was refused after a run with samples had ended: its rows and
\* its warning are still displayed
EmptyInputGuardWitness ==
  /\ Len(samples) = 0
  /\ error = NoInput
  /\ ~loading
  /\ inflight = NULL
  /\ Len(rows) = 3
  /\ warning = BackendUnavailable

\* the click that starts a run displays the local result of the inputs:
\* one row per sample and the master-mix row
LocalShown ==
  (inflight = NULL /\ inflight' # NULL) =>
    /\ Len(samples) >= 1
    /\ rows' = calcLocally(samples, targetNg, overagePct).rows
    /\ Len(rows') = Len(samples) + 1
    /\ masterMix' = calcLocally(samples, targetNg, overagePct).masterMix

\* while the request is pending the local result stays displayed
LocalWhilePending ==
  inflight # NULL =>
    /\ loading
    /\ error = NULL
    /\ rows = inflight.local.rows
    /\ masterMix = inflight.local.masterMix

\* the run ends without a body read from the backend: the response was not
\* ok, or fetch or response.json() rejected
EndsFailed == inflight # NULL /\ inflight' = NULL /\ ~backendUsed'

\* a failed run ends with the local result of the inputs at the click, the
\* warning and no error
FailureKeepsLocal ==
  EndsFailed =>
    /\ rows' = localAgain.rows
    /\ masterMix' = localAgain.masterMix
    /\ warning' = BackendUnavailable
    /\ error' = NULL
    /\ ~loading'

\* C16: after a click with a sample list that is not empty the n + 1 rows
\* computed locally are displayed until the backend answers, and when the
\* request fails the rows and the totals displayed at the end of the run
\* are the local result for the inputs at the time of the click, with the
\* warning "Backend unavailable; showing local calculation." and no error.
LocalFallback ==
  []LocalWhilePending /\ [][LocalShown /\ FailureKeepsLocal]_vars

\* a failed run has ended; the inputs were edited while it was pending, and
\* the rows displayed are those of the inputs at the click
LocalFallbackWitness ==
  /\ inflight = NULL
  /\ ~loading
  /\ warning = BackendUnavailable
  /\ error = NULL
  /\ ~backendUsed
  /\ Len(rows) = 3
  /\ Len(samples) = 1
  /\ rows # calcLocally(samples, targetNg, overagePct).rows

\* the run ends with the label FastAPI
EndsLabelled == inflight # NULL /\ inflight' = NULL /\ backendUsed'

\* C17 as claimed: when a run ends with the source reported as FastAPI, the
\* rows and the totals displayed are the rows and the totals of the body the
\* backend returned for this run; a run that ends without a body read from
\* the backend reports Local.
SourceLabelAsClaimed ==
  [][ /\ EndsLabelled =>
           /\ inflight.response # NULL
           /\ rows' = inflight.response.rows
           /\ masterMix' = inflight.response.master_mix
      /\ (inflight # NULL /\ inflight' = NULL /\ inflight.response = NULL)
           => ~backendUsed' ]_vars

\* the step is the click that starts a run, and the rows become the local
\* rows of this run
ClickReplaces ==
  /\ inflight = NULL
  /\ inflight' # NULL
  /\ rows' = inflight'.local.rows
  /\ inflight'.local = calcLocally(samples, targetNg, overagePct)

\* the step ends a run whose body was read, and the rows become the rows of
\* the body
BodyReplaces ==
  /\ inflight # NULL
  /\ inflight' = NULL
  /\ inflight.response # NULL
  /\ inflight.response.rows # NULL
  /\ rows' = inflight.response.rows

\* C18: the displayed list changes only as a whole, to the rows of the run
\* in progress: to its local rows at the click, or to the rows of the body
\* the backend returned for it; a run that ends otherwise, a refused click
\* and an edit of the inputs leave the list as it is.
RowLifecycle == [][rows' # rows => ClickReplaces \/ BodyReplaces]_vars

\* a run with two samples has ended with the table of the backend, which
\* has taken the place of the three local rows
RowLifecycleWitness ==
  /\ inflight = NULL
  /\ ~loading
  /\ backendUsed
  /\ Len(samples) = 2
  /\ rows = <<>>
  /\ masterMix = [n_samples |-> 0]

\* -1, 0, 1 as m1 * 2^e1 is less than, equal to, more than m2 * 2^e2
ScaledCmp(m1, e1, m2, e2) ==
  IF e1 >= e2 THEN BCmp(BShl(m1, e1 - e2), m2)
  ELSE BCmp(m1, BShl(m2, e2 - e1))

\* 2^51, and the rounding of the division and of the product allowed for:
\* each changes its result by at most one part in 2^53
TwoTo51 == BShl(<<1>>, 51)

\* a * c against t * D * (2^51 + k) / 2^51, for the doubles a, c, t, D > 0
\* and k in -1..1
MassCmp(a, c, t, D, k) ==
  ScaledCmp(BShl(BMul(a.m, c.m), 51), a.e + c.e,
            BMul(BMul(t.m, D.m),
                 IF k = 1 THEN BAdd(TwoTo51, <<1>>)
                 ELSE IF k = 0 THEN TwoTo51 ELSE BSub(TwoTo51, <<1>>)),
            t.e + D.e)

\* what the suggestion sug delivers from the stock c for the target t:
\* whether there is one, whether a * (c / D) is t, and whether it is t but
\* for the rounding
massOf(c, t, sug) ==
  IF sug = NULL THEN [given |-> FALSE, exact |-> FALSE, close |-> FALSE]
  ELSE IF ~(Positive(c) /\ Positive(t) /\ Positive(sug.D)
            /\ Positive(sug.aliq))
  THEN [given |-> TRUE, exact |-> FALSE, close |-> FALSE]
  ELSE [given |-> TRUE,
        exact |-> MassCmp(sug.aliq, c, t, sug.D, 0) = 0,
        close |-> /\ MassCmp(sug.aliq, c, t, sug.D, 1) <= 0
                  /\ MassCmp(sug.aliq, c, t, sug.D, -1) >= 0]

\* the suggestion calcLocally asks for, when it asks
massFor(c, t, req) ==
  massOf(c, t, IF advised(req) THEN suggestDilution(req) ELSE NULL)

massTable ==
  [c \in ConcValues, t \in TableTargets |->
     massFor(FOfDec(c), FOfDec(t), required(FOfDec(c), FOfDec(t)))]

scanOf(req) ==
  [first |-> scanCandidates(req, 1),
   low   |-> FLe(fallbackFactor(req), FOfInt(candidates[Len(candidates)]))]

scanTable ==
  [c \in ConcValues, t \in TableTargets |->
     scanOf(required(FOfDec(c), FOfDec(t)))]

\* 0 < req < MIN_PIP and the loop accepts no candidate
NoCandidate(c, t) == reqFacts[c, t].below /\ scanTable[c, t].first = 0

\* C20, as amended: when 0 < req < MIN_PIP and the scan matches nothing,
\* every candidate was rejected for D x req < 0.5, and the fallback factor
\* max(1, ceil(0.5 / req)) is 51 or more: it is greater than every
\* candidate, never equal to or smaller than one the scan rejected.
FallbackAboveCandidates ==
  Ran => \A i \in 1..Len(inflight.body.samples) :
    NoCandidate(inflight.body.samples[i].conc, inflight.body.target_ng) =>
      /\ \A k \in 1..Len(candidates) :
           ~RealGe(reqFacts[inflight.body.samples[i].conc,
                            inflight.body.target_ng].req,
                   1, 2 * candidates[k])
      /\ IsNumber(factorOf(localRow(i)))
      /\ factorOf(localRow(i)).n > candidates[Len(candidates)]

\* C20 as claimed: once calcLocally has run, some required volume
\* 0 < req < MIN_PIP, among those of the concentrations and targets of the
\* inputs, is one for which the scan matches nothing and the fallback factor
\* is equal to or smaller than a candidate.
FallbackUndercutsAsClaimed ==
  Ran => \E c \in ConcValues, t \in TableTargets :
    NoCandidate(c, t) /\ scanTable[c, t].low

\* 2.3 ng of a stock of 230 ng/ul: req is the double next below 0.01, 50
\* times which is below 0.5; the scan matches nothing and the factor is 51
FallbackAboveCandidatesWitness ==
  /\ Ran
  /\ inflight.body.target_ng = Dec(23, 10)
  /\ \E i \in 1..Len(inflight.body.samples) :
       /\ inflight.body.samples[i].conc = Dec(230, 1)
       /\ NoCandidate(Dec(230, 1), Dec(23, 10))
       /\ factorOf(localRow(i)) = Dec(51, 1)
       /\ localRow(i).RNAVolume = Dec(510, 1000)

\* the cell is the number n / k nearest to the double x >= 0
Nearest(cell, k, x) ==
  /\ IsNumber(cell) /\ cell.d = k /\ cell.n >= 0
  /\ x.k = "fin" /\ (x.s = 1 \/ x.m = <<>>)
  /\ RealLe(x, 2 * cell.n + 1, 2 * k)
  /\ cell.n = 0 \/ RealGe(x, 2 * cell.n - 1, 2 * k)

\* whether the cells c report the volumes v rounded: the RNA volume and H2O
\* to 3 decimals when there are any, the achievable mass to 1 decimal
roundingOf(v, c) ==
  [rna |-> IF v.rnaVol = NULL THEN c.RNAVolume = EMPTY
           ELSE Nearest(c.RNAVolume, 1000, v.rnaVol),
   h2o |-> IF v.h2o = NULL THEN c.H2O = EMPTY ELSE Nearest(c.H2O, 1000, v.h2o),
   ach |-> Nearest(c.AchievableRNA, 10, v.achievable)]

roundTable ==
  [c \in ConcValues, t \in TableTargets |->
     roundingOf(sampleVolumes(FOfDec(c), FOfDec(t)), sampleTable[c, t])]

\* the totals of the master-mix row are numbers of thousandths
MixRounded ==
  /\ IsNumber(mixRow.buffer10x) /\ mixRow.buffer10x.d = 1000
  /\ IsNumber(mixRow.dNTPs) /\ mixRow.dNTPs.d = 1000
  /\ IsNumber(mixRow.RandomPrimers) /\ mixRow.RandomPrimers.d = 1000
  /\ IsNumber(mixRow.Enzyme) /\ mixRow.Enzyme.d = 1000

MaxFactor == 70
RecipeFactors == (-2)..MaxFactor

recipeTable == [D \in RecipeFactors |-> dilutionRecipeText(FOfInt(D))]

recipeOfInfinity == dilutionRecipeText(FInf(1))

\* 10 / D in thousandths, to the nearest and up on a tie
RnaThousandths(D) == (20000 + D) \div (2 * D)

\* the text the recipe has for a factor D > 1: the factor, the ratio
\* 1:(D - 1), the 10 ul to make, RNA = round(10 / D, 3) and H2O = 10 - RNA
StatedRecipe(D) ==
  << Txt("Pre-dilute "), Num(Dec(D, 1)), Txt("x (1:"), Num(Dec(D - 1, 1)),
     Txt("). Make "), Num(Dec(10, 1)), Txt(" ul: "),
     Num(Dec(RnaThousandths(D), 1000)), Txt(" ul RNA + "),
     Num(Dec(10000 - RnaThousandths(D), 1000)), Txt(" ul H2O.") >>

\* the recipe for the factor Infinity: no RNA and 10 ul of H2O
StatedRecipeOfInfinity ==
  << Txt("Pre-dilute "), Num(DecInf(1)), Txt("x (1:"), Num(DecInf(1)),
     Txt("). Make "), Num(Dec(10, 1)), Txt(" ul: "),
     Num(Dec(0, 1000)), Txt(" ul RNA + "),
     Num(Dec(10000, 1000)), Txt(" ul H2O.") >>

\* the recipe in the note of the row r
recipeIn(r) == SubSeq(r.Note, 6, 16)

\* every recipe of the table, and the one of Infinity, is the stated one
RecipesAsStated ==
  /\ \A D \in RecipeFactors :
       recipeTable[D] = IF D <= 1 THEN <<Txt("No pre-dilution needed.")>>
                        ELSE StatedRecipe(D)
  /\ recipeOfInfinity = StatedRecipeOfInfinity

\* C22: dilutionRecipeText returns "No pre-dilution needed." for D <= 1 and
\* for D > 1 a text with the factor D, the ratio 1:(D - 1) and the volumes
\* RNA = round(10 / D, 3) and H2O = round(10 - RNA, 3), whose sum is 10; so
\* it is in the note of every row that advises a dilution.
RecipeAddsUp ==
  Ran =>
    /\ RecipesAsStated
    /\ \A i \in 1..Len(samples) :
         /\ factorOf(localRow(i)).d = 1 /\ factorOf(localRow(i)).n > 1
              => recipeIn(localRow(i)) = StatedRecipe(factorOf(localRow(i)).n)
         /\ factorOf(localRow(i)) = DecInf(1)
              => recipeIn(localRow(i)) = StatedRecipeOfInfinity

\* 3 ng of a stock of 400 ng/ul is diluted 67-fold: 0.149 ul RNA + 9.851 ul
\* H2O; for the factor 32 the tie 0.3125 is stated as 0.313 with 9.687
RecipeAddsUpWitness ==
  /\ Ran
  /\ targetNg = Dec(3, 1)
  /\ \E i \in 1..Len(samples) :
       /\ samples[i].conc = Dec(400, 1)
       /\ factorOf(localRow(i)) = Dec(67, 1)
       /\ localRow(i).Note[13] = Num(Dec(149, 1000))
       /\ localRow(i).Note[15] = Num(Dec(9851, 1000))
  /\ recipeTable[32][8] = Num(Dec(313, 1000))
  /\ recipeTable[32][10] = Num(Dec(9687, 1000))
  /\ recipeTable[1] = <<Txt("No pre-dilution needed.")>>

\* the path s is empty once trimmed
Blank(s) == \A j \in DOMAIN s : s[j] \in WhiteSpace

\* the path s has no blank at either end
Trimmed(s) == s = <<>> \/ (s[1] \notin WhiteSpace /\ s[Len(s)] \notin WhiteSpace)

\* the call of handleFinishSetup that ends in this step, 0 when none does
endingCall ==
  IF Len(finishing') < Len(finishing)
  THEN CHOOSE i \in 1..Len(finishing) : finishing' = withoutCall(i)
  ELSE 0

\* a click on Finish setup with a blank path: the message appears, nothing
\* is persisted, no overlay closes and no call awaits
FinishRefused ==
  (setupError' = SetupFillAll /\ setupError # SetupFillAll) =>
    /\ \E k \in PathKeys : Blank(paths[k])
    /\ savingSetup' = FALSE
    /\ UNCHANGED <<storage, setupOpen, settingsOpen, finishing>>

\* a call awaits ensureDirectories only with four paths that are not blank
FinishAwaits ==
  Len(finishing') > Len(finishing) => \A k \in PathKeys : ~Blank(paths[k])

\* a call that ends has persisted its trimmed paths and closed both overlays
\* if ensureDirectories reported ok, and has otherwise set a message,
\* persisted nothing and closed nothing; savingSetup is false after it
FinishEnds ==
  endingCall # 0 =>
    /\ savingSetup' = FALSE
    /\ IF finishing[endingCall].settled /\ okOf(finishing[endingCall].result)
       THEN /\ storage' = finishing[endingCall].trimmed
            /\ \A k \in PathKeys : ~Blank(storage'[k]) /\ Trimmed(storage'[k])
            /\ ~setupOpen' /\ ~settingsOpen'
       ELSE /\ setupError' # NULL
            /\ UNCHANGED <<storage, setupOpen, settingsOpen>>

\* nothing but a call that ends well persists paths or closes the setup
PersistedByFinish ==
  (storage' # storage \/ setupOpen' # setupOpen) =>
    /\ endingCall # 0
    /\ finishing[endingCall].settled
    /\ okOf(finishing[endingCall].result)

\* in the web build ensureDirectories never reports a failure
WebAlwaysOk ==
  ~desktop => \A i \in 1..Len(finishing) :
                finishing[i].settled => okOf(finishing[i].result)

\* C23: Finish setup persists the four trimmed paths and closes the setup
\* and settings overlays only when none of them is blank and
\* ensureDirectories reported ok, which it always does in the web build;
\* otherwise it sets a setup error, persists nothing and leaves the overlays
\* as they are; savingSetup is false after every outcome.
FinishSetupContract ==
  /\ []WebAlwaysOk
  /\ [][FinishRefused /\ FinishAwaits /\ FinishEnds /\ PersistedByFinish]_vars

\* the first run has ended well: the sync path typed with blanks around it
\* is persisted trimmed, the setup overlay is closed and nothing is saving
FinishSetupContractWitness ==
  /\ "syncPath" \in DOMAIN storage
  /\ storage.syncPath = <<"D:/lab">>
  /\ paths.syncPath = <<" ", "D:/lab", " ">>
  /\ ~setupOpen /\ ~settingsOpen
  /\ ~savingSetup
  /\ finishing = <<>>

\* the tutorial is open only on a step of a list that has steps
StepInRange ==
  open => hasSteps /\ 0 <= stepIndex /\ stepIndex <= Len(steps) - 1

\* Start opens at step 0; Next on the last step closes and does not advance;
\* Back on step 0 stays there; the list of steps is fixed
StepMoves ==
  /\ steps' = steps
  /\ startTutorial => open' /\ stepIndex' = 0
  /\ (~open /\ open') => stepIndex' = 0
  /\ (nextStep /\ stepIndex = Len(steps) - 1) => ~open' /\ stepIndex' = stepIndex
  /\ (nextStep /\ stepIndex < Len(steps) - 1) => open' /\ stepIndex' = stepIndex + 1
  /\ (prevStep /\ stepIndex = 0) => stepIndex' = 0
  /\ stepIndex' >= 0 /\ stepIndex' <= stepIndex + 1

\* C30: for a fixed list of steps, after any clicks on Start, Next, Back and
\* Skip the tutorial is open only if the list is not empty and
\* 0 <= stepIndex <= steps.length - 1; Start opens at step 0, Next on the
\* last step closes the tutorial instead of advancing, and Back on step 0
\* leaves stepIndex at 0.
TutorialStepInvariant == []StepInRange /\ [][StepMoves]_vars

\* the tutorial of three steps is open on its last step, the element found
TutorialStepInvariantWitness ==
  /\ open
  /\ Len(steps) = 3
  /\ stepIndex = 2
  /\ targetRect # NULL

\* the samples the lines ix of the pool are to yield, in their order
RECURSIVE yieldsOf(_)
yieldsOf(ix) ==
  IF ix = <<>> THEN <<>>
  ELSE LinePool[ix[1]].yields \o yieldsOf(Tail(ix))

\* C24: parseSamples skips the lines that contain both "sample" and "conc"
\* in any case, and the blank ones; every other line with two or more
\* fields between commas, blanks and tabs, the second of which parseFloat
\* reads as a number, yields one sample, in the order of the lines; a line
\* whose second field is no number is dropped, so that no concentration is
\* NaN.
ParserContract ==
  /\ \E ix \in LineLists : sampleText = textOf(ix) /\ samples = yieldsOf(ix)
  /\ \A i \in DOMAIN samples : samples[i].conc # DecNaN

\* the text "conc_sample,7" and "C  12ab" yields the sample C of 12 ng/ul
ParserContractWitness ==
  /\ sampleText = textOf(<<12, 5>>)
  /\ samples = <<[sample |-> <<"C">>, conc |-> Dec(12, 1)]>>

\* a call of suggestDilution with 0 < req < MIN_PIP
AdvisedPositive ==
  advice # NULL /\ FGt(advice.req, FZero) /\ FLt(advice.req, MIN_PIP)

\* MIN_PIP / req is beyond the largest number: req <= 2^-1025
QuotientOverflows(req) == FLe(req, TwoTo(-1025))

\* C25, as amended: for every 0 < req < 0.5 whose quotient 0.5 / req is
\* finite, suggestDilution returns a suggestion with D >= 2 and an aliquot
\* of at most 14.2; for a positive req of at most 2^-1025 the quotient is
\* Infinity, the aliquot Infinity * req exceeds the available volume and
\* suggestDilution returns null.  Null is returned for these and for
\* negative req only, through the guard dMax < 1.
AdvisorTotalInRange ==
  advice # NULL =>
    /\ (AdvisedPositive /\ ~QuotientOverflows(advice.req)) =>
         /\ advice.sug # NULL
         /\ FGe(advice.sug.D, FOfInt(2))
         /\ FLe(advice.sug.aliq, AVAIL_RNA_H2O)
    /\ advice.sug = NULL <=>
         \/ FLt(advice.req, FZero)
         \/ FGt(advice.req, FZero) /\ QuotientOverflows(advice.req)

\* C25 as claimed: for every 0 < req < 0.5 suggestDilution returns a
\* suggestion with D >= 2, and it returns null for negative req only.
AdvisorTotalAsClaimed ==
  advice # NULL =>
    /\ AdvisedPositive => advice.sug # NULL /\ FGe(advice.sug.D, FOfInt(2))
    /\ advice.sug = NULL => FLt(advice.req, FZero)

\* req = 1/200: no candidate fits (50 * req is below 0.5) and the fallback
\* suggests a factor of 100 or 101
AdvisorTotalInRangeWitness ==
  /\ advice # NULL
  /\ advice.req = FDiv(FOfInt(1), FOfInt(200))
  /\ advice.sug # NULL
  /\ FGe(advice.sug.D, FOfInt(100))
  /\ pipettable(advice.sug.aliq)

\* the cell is a finite number from lo / 10 to hi / 10
CellWithin(cell, lo, hi) ==
  /\ IsNumber(cell)
  /\ cell.n * 10 >= lo * cell.d
  /\ cell.n * 10 <= hi * cell.d

\* C26 as claimed: for every concentration and every target, 0 and negative
\* targets included, each sample row with a non-empty RNA volume has
\* 0.5 <= RNA volume <= 14.2 and 0 <= H2O <= 13.7, both finite numbers.
PipettableRangeAsClaimed ==
  Ran =>
    \A i \in 1..Len(samples) :
      localRow(i).RNAVolume # EMPTY =>
        /\ CellWithin(localRow(i).RNAVolume, 5, 142)
        /\ CellWithin(localRow(i).H2O, 0, 137)

\* the outcome of row r of the concentration c: the volumes are empty
\* together, a row without volumes has a note, and the note is empty in the
\* rows of the direct path only
OutcomeOf(r, c) ==
  /\ r.RNAVolume = EMPTY <=> r.H2O = EMPTY
  /\ r.RNAVolume = EMPTY => r.Note # <<>>
  /\ r.Note = <<>> <=> DirectCase(c, targetNg)

\* C27, as amended: in every sample row RNA volume is empty if and only if
\* H2O is empty, an empty RNA volume comes with a non-empty Note, the Note is
\* empty if and only if the row took the direct-pipetting path, and in every
\* row whose RNA volume is not empty Achievable RNA is the target rounded to
\* 1 decimal.
RowOutcomeConsistent ==
  Ran =>
    \A i \in 1..Len(samples) :
      /\ OutcomeOf(localRow(i), samples[i].conc)
      /\ localRow(i).RNAVolume # EMPTY =>
           Rounds(localRow(i).AchievableRNA, 10, targetNg.n, targetNg.d)

\* C27 as claimed: Achievable RNA equals the target in every row whose RNA
\* volume is not empty.
RowOutcomeAsClaimed ==
  Ran =>
    \A i \in 1..Len(samples) :
      /\ OutcomeOf(localRow(i), samples[i].conc)
      /\ localRow(i).RNAVolume # EMPTY =>
           Equals(localRow(i).AchievableRNA, targetNg.n, targetNg.d)

\* a target of 200.25 ng: a row of the advisor, with an RNA volume, H2O, a
\* note and 200.3 ng
RowOutcomeConsistentWitness ==
  /\ Ran
  /\ targetNg = Dec(801, 4)
  /\ \E i \in 1..Len(samples) :
       /\ ~DirectCase(samples[i].conc, targetNg)
       /\ localRow(i).Note # <<>>
       /\ localRow(i).RNAVolume # EMPTY
       /\ localRow(i).H2O # EMPTY
       /\ localRow(i).AchievableRNA = Dec(2003, 10)

\* a step that starts a run: the guard is passed and the request is sent
RunStarts == inflight = NULL /\ inflight' # NULL

\* the run that started has ended: the finally block has run
RunEnded == inflight = NULL /\ ~loading

\* C28: every run that passes the empty-input guard sets loading to true,
\* and when the promises it awaits settle (fetch, and response.json() after
\* a response that is ok) loading is set back to false on every path, so a
\* disabled Calculate button is always enabled again.
Completion ==
  /\ [][RunStarts => loading' = TRUE]_vars
  /\ (loading ~> RunEnded)

\* a run has ended on the path of a response that is not ok or of a
\* rejection: the local rows stay, under the warning, and loading is false
CompletionWitness ==
  /\ RunEnded
  /\ rows # <<>>
  /\ warning = BackendUnavailable
  /\ ~backendUsed

\* at most one request is in flight
OneInFlight == Len(requests) <= 1

\* a step in which a run completes
RunCompletes == Len(requests') < Len(requests)

\* the rows of the local result for the inputs the body carries
localRowsFor(body) ==
  calcLocally(body.samples, body.target_ng, body.overage_pct).rows

\* the rows a completing run leaves: those of its response, if the backend
\* was read and sent any, else the local rows of the inputs captured at its
\* start
rowsAtEndOf(run, answered) ==
  IF answered /\ run.response.rows # NULL THEN run.response.rows
  ELSE localRowsFor(run.body)

\* the run that completes is the one whose rows are displayed: no run was
\* started after it
CompletesOverOwnRows ==
  RunCompletes => requests' = <<>> /\ rows = localRowsFor(requests[1].body)

\* the rows at the end of a run are those of the inputs captured at its start
CompletesWithCaptured ==
  RunCompletes => rows' = rowsAtEndOf(requests[1], backendUsed')

\* C29: the Calculate button is disabled while loading, so at most one
\* /calculate request is in flight at any time; a run that completes
\* replaces its own rows, never those of a later run; and the rows shown
\* when it completes are those of the samples, target and overage captured
\* when it was started, also when the inputs were edited meanwhile.
NoOverlappingRuns ==
  /\ []OneInFlight
  /\ [][CompletesOverOwnRows /\ CompletesWithCaptured]_vars

\* a run of two samples has completed with the backend's answer after the
\* sample list was edited down to one sample while it was pending: the three
\* rows of the inputs at the click are displayed
NoOverlappingRunsWitness ==
  /\ requests = <<>>
  /\ ~loading
  /\ backendUsed
  /\ Len(samples) = 1
  /\ Len(rows) = 3
  /\ rows # calcLocally(samples, targetNg, overagePct).rows

=============================================================================
